---- MODULE Spec2Model ----
(***************************************************************************)
(* Recurrence resolution and notification timing of sweep-dreams.          *)
(*                                                                         *)
(* A datetime is the number of minutes of wall-clock time since the start  *)
(* of proleptic day 0 (date.toordinal() * 1440 + hour * 60 + minute).      *)
(* Every datetime the program compares carries the same tzinfo, and Python *)
(* compares and subtracts such datetimes on their wall-clock fields, so    *)
(* the integer order is the order the program sees.                        *)
(***************************************************************************)
EXTENDS Integers, Sequences, FiniteSets, TLC

VARIABLES
    pc,         \* which operation produced the current results
    schedules,  \* the SweepingSchedule rows handed to the operation
    now,        \* the reference instant, already normalised to the target zone
    window,     \* result of the resolver: [exc, start, end]
    blocks,     \* result of sweeping_schedules_to_blocks: [exc, list]
    id_window,  \* result of earliest_sweep_window_with_block_id
    regulation, \* a ParkingRegulation (the input of the timing decision)
    record,     \* a SubscriptionRecord (the input of the decision function)
    window_end, \* end of the polling window handed to the decision function
    decision,   \* result of should_send / should_send_timing
    subscriptions, \* the subscription table, in list_subscriptions order
    sweep_log,  \* what the last run of main did: sent, skipped, one entry per record
    notified,   \* history: the occurrences a push was delivered for
    repeated,   \* history: the occurrences a push was delivered for more than once
    suppressed, \* history: occurrences never pushed that the last_notified_at check declined
    mark_failed, \* history: some delivered push was not followed by a stored mark
    response,   \* result of check_location: [status, detail, schedules]
    raw_now     \* the reference as the caller passed it: [wall, utcoffset]

vars == <<pc, schedules, now, window, blocks, id_window,
          regulation, record, window_end, decision,
          subscriptions, sweep_log, notified, repeated, suppressed, mark_failed,
          response, raw_now>>

-----------------------------------------------------------------------------
(* Optional values: None is the empty tuple, a present value a 1-tuple.    *)
None == <<>>
Some(x) == <<x>>
Val(o) == o[1]

MinutesPerDay == 24 * 60

-----------------------------------------------------------------------------
(* Calendar arithmetic of the datetime / calendar modules.                 *)

isleap(year) == year % 4 = 0 /\ (year % 100 # 0 \/ year % 400 = 0)

mdays == <<31, 28, 31, 30, 31, 30, 31, 31, 30, 31, 30, 31>>

DaysInMonth(year, month) ==
    mdays[month] + (IF month = 2 /\ isleap(year) THEN 1 ELSE 0)

RECURSIVE DaysBeforeMonth(_, _)
DaysBeforeMonth(year, month) ==
    IF month = 1 THEN 0
    ELSE DaysBeforeMonth(year, month - 1) + DaysInMonth(year, month - 1)

DaysBeforeYear(year) ==
    LET y == year - 1
    IN  y * 365 + (y \div 4) - (y \div 100) + (y \div 400)

\* date(year, month, day).toordinal()
ymd2ord(year, month, day) ==
    DaysBeforeYear(year) + DaysBeforeMonth(year, month) + day

\* date.weekday(): Monday is 0
WeekdayOfOrd(ord) == (ord + 6) % 7

\* datetime(year, month, day, hour, minute, tzinfo=tzinfo)
DateTime(year, month, day, hour, minute) ==
    (ymd2ord(year, month, day) * 24 + hour) * 60 + minute

OrdOf(dt) == dt \div MinutesPerDay
MinuteOfDay(dt) == dt % MinutesPerDay

\* the year of a datetime (datetime.year)
YearOf(dt) ==
    LET n0   == OrdOf(dt) - 1
        n400 == n0 \div 146097
        r400 == n0 % 146097
        n100 == r400 \div 36524
        r100 == r400 % 36524
        n4   == r100 \div 1461
        r4   == r100 % 1461
        n1   == r4 \div 365
        y    == n400 * 400 + 1 + n100 * 100 + n4 * 4 + n1
    IN  IF n1 = 4 \/ n100 = 4 THEN y - 1 ELSE y

\* the month of a datetime (datetime.month)
MonthOf(dt) ==
    LET y == YearOf(dt)
        n == OrdOf(dt) - DaysBeforeYear(y)
    IN  CHOOSE m \in 1..12 :
            DaysBeforeMonth(y, m) < n /\ n <= DaysBeforeMonth(y, m) + DaysInMonth(y, m)

\* the day of the month of a datetime (datetime.day)
DayOf(dt) ==
    LET y == YearOf(dt)
    IN  OrdOf(dt) - DaysBeforeYear(y) - DaysBeforeMonth(y, MonthOf(dt))

-----------------------------------------------------------------------------
(* domain/models.py                                                        *)

WEEKDAY_LOOKUP ==
    [l \in {"mon", "monday"} |-> 0] @@
    [l \in {"tues", "tue", "tuesday"} |-> 1] @@
    [l \in {"wed", "weds", "wednesday"} |-> 2] @@
    [l \in {"thu", "thur", "thurs", "thursday"} |-> 3] @@
    [l \in {"fri", "friday"} |-> 4] @@
    [l \in {"sat", "saturday"} |-> 5] @@
    [l \in {"sun", "sunday"} |-> 6]

\* str.lower() on the labels the dataset carries, and on one with a blank
LowerTable ==
    [Mon |-> "mon", Tues |-> "tues", Wed |-> "wed", Thu |-> "thu",
     Fri |-> "fri", Sat |-> "sat", Sun |-> "sun",
     Holiday |-> "holiday", Funday |-> "funday"] @@ (" Tues" :> " tues")

Lower(label) == LowerTable[label]

\* str.strip().lower()
StripLowerTable == (" Tues" :> "tues") @@ LowerTable

StripLower(label) == StripLowerTable[label]

-----------------------------------------------------------------------------
(* domain/calendar.py                                                      *)

\* ascending list of a set of integers (sorted(...), or the enumerate filter)
RECURSIVE SortedSeq(_)
SortedSeq(S) ==
    IF S = {} THEN <<>>
    ELSE LET m == CHOOSE x \in S : \A y \in S : x <= y
         IN  <<m>> \o SortedSeq(S \ {m})

_nth_weekday_unchecked(year, month, weekday, occurrence) ==
    Some(1 + ((weekday - WeekdayOfOrd(ymd2ord(year, month, 1))) % 7) + 7 * (occurrence - 1))

_nth_weekday(year, month, weekday, occurrence) ==
    LET first_weekday == WeekdayOfOrd(ymd2ord(year, month, 1))
        days_in_month == DaysInMonth(year, month)
        day == 1 + ((weekday - first_weekday) % 7) + 7 * (occurrence - 1)
    IN  IF day <= days_in_month THEN Some(day) ELSE None

SearchMonths_short == 1 + 1

\* range(0, 13): the reference month and the twelve that follow
SearchMonths == 13

Ok(start, end) == [exc |-> "none", start |-> start, end |-> end]
Raise(kind) == [exc |-> kind, start |-> 0, end |-> 0]

WindowPassed_lt(end_dt, reference) == end_dt < reference

\* "if end_dt <= reference: continue"
WindowPassed(end_dt, reference) == end_dt <= reference

WindowAccepted_future_only(start_dt, end_dt, reference) == start_dt > reference

\* "if start_dt <= reference <= end_dt or start_dt > reference: return"
WindowAccepted(start_dt, end_dt, reference) ==
    (start_dt <= reference /\ reference <= end_dt) \/ start_dt > reference

\* the first month the search visits (month_offset = 0)
FirstMonthIndex(reference) == MonthOf(reference) - 1

CrossMidnight_strict(start_dt, end_dt) ==
    IF end_dt < start_dt THEN end_dt + MinutesPerDay ELSE end_dt

\* One pass of the inner loop body: the window of the (month, occurrence)
\* pair when the loop returns it, None when the loop continues.
\* "if end_dt <= start_dt: end_dt += timedelta(days=1)"
CrossMidnight(start_dt, end_dt) ==
    IF end_dt <= start_dt THEN end_dt + MinutesPerDay ELSE end_dt

\* the two tests that close the loop body
ReturnOrContinue(start_dt, end_dt, reference) ==
    IF WindowPassed(end_dt, reference) THEN None
    ELSE IF WindowAccepted(start_dt, end_dt, reference)
         THEN Some(Ok(start_dt, end_dt))
         ELSE None

\* the loop body once the day of the month is known
CandidateOnDay(midnight, from_hour, to_hour, reference) ==
    ReturnOrContinue(midnight + from_hour * 60,
                     CrossMidnight(midnight + from_hour * 60, midnight + to_hour * 60),
                     reference)

CandidateOfDay(day, year, month, from_hour, to_hour, reference) ==
    IF day = None THEN None
    ELSE CandidateOnDay(DateTime(year, month, Val(day), 0, 0),
                        from_hour, to_hour, reference)

Candidate(year, month, weekday, occurrence, from_hour, to_hour, reference) ==
    CandidateOfDay(_nth_weekday(year, month, weekday, occurrence),
                   year, month, from_hour, to_hour, reference)

\* "year = reference.year + month_index // 12; month = (month_index % 12) + 1"
CandidateInMonth(reference_year, month_index, weekday, occurrence, from_hour, to_hour, reference) ==
    Candidate(reference_year + (month_index \div 12), (month_index % 12) + 1,
              weekday, occurrence, from_hour, to_hour, reference)

\* The two nested loops shared, line for line, by next_sweep_window and
\* next_sweep_window_from_rule: months ascending, occurrences in list order.
RECURSIVE SearchWindow(_, _, _, _, _, _, _)

\* found: what the loop body gave; last: the inner loop is at its last occurrence
SearchStep(found, last, month_offset, i, weekday, active_weeks, from_hour, to_hour, reference) ==
    IF found # None THEN Val(found)
    ELSE SearchWindow(IF last THEN month_offset + 1 ELSE month_offset,
                      IF last THEN 1 ELSE i + 1,
                      weekday, active_weeks, from_hour, to_hour, reference)

SearchWindow(month_offset, i, weekday, active_weeks, from_hour, to_hour, reference) ==
    IF month_offset >= SearchMonths
    THEN Raise("ValueError")
    ELSE SearchStep(IF i > Len(active_weeks) THEN None
                    ELSE CandidateInMonth(YearOf(reference),
                                          FirstMonthIndex(reference) + month_offset,
                                          weekday, active_weeks[i],
                                          from_hour, to_hour, reference),
                    i >= Len(active_weeks),
                    month_offset, i, weekday, active_weeks, from_hour, to_hour, reference)

\* the checks and the search, on the label stripped and lowered
NextSweepWindowOf(weekday_label, sched, reference) ==
    IF weekday_label = "holiday" THEN Raise("ValueError")
    ELSE IF weekday_label \notin DOMAIN WEEKDAY_LOOKUP THEN Raise("ValueError")
    ELSE IF sched.weeks = {} THEN Raise("ValueError")
    ELSE IF sched.from_hour = None \/ sched.to_hour = None THEN Raise("ValueError")
    ELSE SearchWindow(0, 1, WEEKDAY_LOOKUP[weekday_label], SortedSeq(sched.weeks),
                      Val(sched.from_hour), Val(sched.to_hour), reference)

next_sweep_window_holiday_as_sunday(sched, reference) ==
    NextSweepWindowOf(IF StripLower(sched.week_day) = "holiday" THEN "sun"
                      ELSE StripLower(sched.week_day), sched, reference)

next_sweep_window(sched, reference) ==
    NextSweepWindowOf(StripLower(sched.week_day), sched, reference)

\* "sorted(rule.pattern.weeks_of_month) if rule.pattern.weeks_of_month
\*  else [1, 2, 3, 4, 5]"
ActiveWeeksOfRule(rule) ==
    IF rule.weeks_of_month # None /\ Val(rule.weeks_of_month) # {}
    THEN SortedSeq(Val(rule.weeks_of_month))
    ELSE <<1, 2, 3, 4, 5>>

\* "if not active_weeks: raise", then the search
SearchActiveWeeks(weekday, active_weeks, start_hour, end_hour, reference) ==
    IF active_weeks = <<>> THEN Raise("ValueError")
    ELSE SearchWindow(0, 1, weekday, active_weeks, start_hour, end_hour, reference)

\* next(iter(rule.pattern.weekdays)): the element a set yields first is not
\* fixed by the language, so the caller supplies it (first \in weekdays).
next_sweep_window_from_rule(rule, first, reference) ==
    IF rule.weekdays = {} THEN Raise("ValueError")
    ELSE SearchActiveWeeks(first, ActiveWeeksOfRule(rule),
                           rule.time_window.start, rule.time_window.end, reference)

IsBetterStart_last_wins(best, start) == TRUE

\* "earliest_start is None or start < earliest_start"
IsBetterStart(best, start) == best = None \/ start < Val(best).start

\* the try/except and the comparison of one pass of the loop over the rules
KeepEarlier(best, r) ==
    IF r.exc = "ValueError" THEN best
    ELSE IF IsBetterStart(best, r.start) THEN Some(r)
    ELSE best

\* firsts[i] is the weekday rule i yields first when iterated
RECURSIVE EarliestOverRules(_, _, _, _, _)
EarliestOverRules(rules, firsts, reference, i, best) ==
    IF i > Len(rules) THEN best
    ELSE EarliestOverRules(rules, firsts, reference, i + 1,
            KeepEarlier(best,
                        next_sweep_window_from_rule(rules[i], firsts[i], reference)))

\* "if earliest_start is None: raise ValueError"
EarliestOrRaise(best) == IF best = None THEN Raise("ValueError") ELSE Val(best)

earliest_sweep_window(block_schedule, firsts, reference) ==
    EarliestOrRaise(EarliestOverRules(block_schedule.rules, firsts, reference, 1, None))

OkId(start, end, id) == [exc |-> "none", start |-> start, end |-> end, block_sweep_id |-> id]
RaiseId(kind) == [exc |-> kind, start |-> 0, end |-> 0, block_sweep_id |-> 0]

IsBetterRow_first_wins(best, start, block_sweep_id) ==
    \/ best = None
    \/ start < Val(best).start

\* "is_better_start or (is_same_start and ... and
\*  schedule.block_sweep_id < earliest_block_sweep_id)"
IsBetterRow(best, start, block_sweep_id) ==
    \/ best = None
    \/ start < Val(best).start
    \/ (start = Val(best).start /\ block_sweep_id < Val(best).block_sweep_id)

\* the try/except and the comparison of one pass of the loop over the rows
KeepEarlierRow(best, block_sweep_id, r) ==
    IF r.exc = "ValueError" THEN best
    ELSE IF IsBetterRow(best, r.start, block_sweep_id)
         THEN Some(OkId(r.start, r.end, block_sweep_id))
         ELSE best

RECURSIVE EarliestOverRows(_, _, _, _)
EarliestOverRows(source_schedules, reference, i, best) ==
    IF i > Len(source_schedules) THEN best
    ELSE EarliestOverRows(source_schedules, reference, i + 1,
            KeepEarlierRow(best, source_schedules[i].block_sweep_id,
                           next_sweep_window(source_schedules[i], reference)))

EarliestIdOrRaise(best) == IF best = None THEN RaiseId("ValueError") ELSE Val(best)

earliest_sweep_window_with_block_id(block_schedule, source_schedules, reference) ==
    EarliestIdOrRaise(EarliestOverRows(source_schedules, reference, 1, None))

-----------------------------------------------------------------------------
(* parsing/converters.py                                                   *)

\* keys of the grouping dict, in order of first insertion
RECURSIVE BlockKeysInOrder(_, _, _)
BlockKeysInOrder(scheds, i, acc) ==
    IF i > Len(scheds) THEN acc
    ELSE BlockKeysInOrder(scheds, i + 1,
            IF \E j \in 1..Len(acc) : acc[j] = scheds[i].block
            THEN acc
            ELSE Append(acc, scheds[i].block))

RowsOfBlock(scheds, block) == SelectSeq(scheds, LAMBDA s : s.block = block)

GeometryMismatch_ignored(block_schedules) == FALSE

\* "for sched in block_schedules[1:]: if sched.line != geometry: raise"
GeometryMismatch(block_schedules) ==
    \E k \in 2..Len(block_schedules) : block_schedules[k].line # block_schedules[1].line

\* the block the "Inconsistent geometries for block ..." message names: the
\* first key, in grouping order, whose rows fail the check
InconsistentBlockOf(scheds, keys) ==
    keys[CHOOSE k \in 1..Len(keys) :
            /\ GeometryMismatch(RowsOfBlock(scheds, keys[k]))
            /\ \A j \in 1..(k - 1) : ~GeometryMismatch(RowsOfBlock(scheds, keys[j]))]

InconsistentBlock(scheds) == InconsistentBlockOf(scheds, BlockKeysInOrder(scheds, 1, <<>>))

\* one RecurringRule per row
RuleOfRow(sched) ==
    [weekdays |-> {WEEKDAY_LOOKUP[Lower(sched.week_day)]},
     weeks_of_month |-> IF sched.weeks = {} THEN None ELSE Some(sched.weeks),
     time_window |-> [start |-> Val(sched.from_hour), end |-> Val(sched.to_hour)],
     skip_holidays |-> sched.holidays]

\* the exception converting one row raises, "none" if it converts
RowConversionError(sched) ==
    IF Lower(sched.week_day) \notin DOMAIN WEEKDAY_LOOKUP THEN "KeyError"
    ELSE IF sched.from_hour = None \/ sched.to_hour = None THEN "TypeError"
    ELSE "none"

SameMergeKey_ignores_weeks(existing, rule) ==
    /\ existing.time_window = rule.time_window
    /\ existing.skip_holidays = rule.skip_holidays

SameMergeKey(existing, rule) ==
    /\ existing.time_window = rule.time_window
    /\ existing.weeks_of_month = rule.weeks_of_month
    /\ existing.skip_holidays = rule.skip_holidays

MergeInto_overwrites(existing, rule) ==
    [existing EXCEPT !.weekdays = rule.weekdays]

\* "existing.pattern.weekdays |= rule.pattern.weekdays"
MergeInto(existing, rule) ==
    [existing EXCEPT !.weekdays = existing.weekdays \cup rule.weekdays]

RECURSIVE MergeRules(_, _, _)
MergeRules(rules, i, merged_rules) ==
    IF i > Len(rules) THEN merged_rules
    ELSE
        LET rule == rules[i]
            hits == { j \in 1..Len(merged_rules) : SameMergeKey(merged_rules[j], rule) }
            j == CHOOSE h \in hits : \A g \in hits : h <= g
            merged == IF hits # {}
                      THEN [merged_rules EXCEPT ![j] = MergeInto(merged_rules[j], rule)]
                      ELSE Append(merged_rules, rule)
        IN  MergeRules(rules, i + 1, merged)

RECURSIVE ConvertBlocks(_, _, _, _)
ConvertBlocks(scheds, keys, k, result) ==
    IF k > Len(keys) THEN [exc |-> "none", list |-> result]
    ELSE
        LET block_schedules == RowsOfBlock(scheds, keys[k])
            bad == { i \in 1..Len(block_schedules) :
                        RowConversionError(block_schedules[i]) # "none" }
        IN  IF GeometryMismatch(block_schedules)
            THEN [exc |-> "ValueError", list |-> <<>>]
            ELSE IF bad # {}
            THEN [exc |-> RowConversionError(
                            block_schedules[CHOOSE i \in bad : \A j \in bad : i <= j]),
                  list |-> <<>>]
            ELSE
                LET rules == [i \in 1..Len(block_schedules) |-> RuleOfRow(block_schedules[i])]
                IN  ConvertBlocks(scheds, keys, k + 1,
                        Append(result, [block |-> keys[k],
                                        rules |-> MergeRules(rules, 1, <<>>),
                                        line  |-> block_schedules[1].line]))

sweeping_schedules_to_blocks(scheds) ==
    ConvertBlocks(scheds, BlockKeysInOrder(scheds, 1, <<>>), 1, <<>>)

-----------------------------------------------------------------------------
(* domain/calendar.py: parking regulations                                 *)

DAYS_TO_WEEKDAYS ==
    [x \in {"m-f"} |-> 0..4] @@ [x \in {"m-sa"} |-> 0..5] @@ [x \in {"m-su"} |-> 0..6] @@
    [x \in {"sa-su"} |-> {5, 6}] @@ [x \in {"su"} |-> {6}] @@ [x \in {"sa"} |-> {5}]

\* (regulation.days or "").strip().lower() on the labels the dataset carries
LowerDaysTable ==
    [x \in {"M-F"} |-> "m-f"] @@ [x \in {"M-Sa"} |-> "m-sa"] @@ [x \in {"M-Su"} |-> "m-su"] @@
    [x \in {"Sa-Su"} |-> "sa-su"] @@ [x \in {"Su"} |-> "su"] @@ [x \in {"Sa"} |-> "sa"] @@
    [x \in {"Daily"} |-> "daily"]

LowerDays(days) == IF days = None THEN "" ELSE LowerDaysTable[Val(days)]

_parse_military_time(military) == [hours |-> military \div 100, minutes |-> military % 100]

\* datetime(...) rejects an hour outside 0..23 or a minute outside 0..59
ValidTime(t) == t.hours \in 0..23 /\ t.minutes \in 0..59

\* range(8)
RegulationSearchDays == 8

RECURSIVE SearchRegulation(_, _, _, _, _)
SearchRegulation(day_offset, active_weekdays, begin, end, reference) ==
    IF day_offset >= RegulationSearchDays
    THEN Raise("ValueError")
    ELSE
        LET candidate == OrdOf(reference) + day_offset
            active    == WeekdayOfOrd(candidate) \in active_weekdays
            start_dt  == (candidate * 24 + begin.hours) * 60 + begin.minutes
            end_0     == (candidate * 24 + end.hours) * 60 + end.minutes
            end_dt    == IF end_0 <= start_dt THEN end_0 + MinutesPerDay ELSE end_0
        IN  IF active /\ ~(ValidTime(begin) /\ ValidTime(end))
            THEN Raise("ValueError")
            ELSE IF active /\ ~(end_dt <= reference)
            THEN Ok(start_dt, end_dt)
            ELSE SearchRegulation(day_offset + 1, active_weekdays, begin, end, reference)

next_parking_regulation_window(reg, reference) ==
    LET days_str == LowerDays(reg.days)
    IN  IF days_str = "" \/ days_str \notin DOMAIN DAYS_TO_WEEKDAYS THEN Raise("ValueError")
        ELSE IF reg.hrs_begin = None \/ reg.hrs_end = None THEN Raise("ValueError")
        ELSE SearchRegulation(0, DAYS_TO_WEEKDAYS[days_str],
                              _parse_military_time(Val(reg.hrs_begin)),
                              _parse_military_time(Val(reg.hrs_end)), reference)

-----------------------------------------------------------------------------
(* scripts/send_notifications.py: the decision function                    *)

Decision(send, start, end, notify_at) ==
    [exc |-> "none", send |-> send, start |-> start, end |-> end, notify_at |-> notify_at]

DecisionRaise(kind) ==
    [exc |-> kind, send |-> FALSE, start |-> None, end |-> None, notify_at |-> None]

HasStarted_lt(start, reference_now) == start < reference_now

\* "if start <= now"
HasStarted(start, reference_now) == start <= reference_now

\* "if notify_at < now"
IsLate(notify_at, reference_now) == notify_at < reference_now

TooEarly_gt(notify_at, polling_end) == notify_at > polling_end

\* "if notify_at >= window_end"
TooEarly(notify_at, polling_end) == notify_at >= polling_end

AlreadyNotified_gt(rec, notify_at) ==
    rec.last_notified_at # None /\ Val(rec.last_notified_at) > notify_at

AlreadyNotified_never(rec, notify_at) == FALSE

\* "if record.last_notified_at and record.last_notified_at >= notify_at"
AlreadyNotified(rec, notify_at) ==
    rec.last_notified_at # None /\ Val(rec.last_notified_at) >= notify_at

\* "if ...: return False, ...; return True, ..." of the late branch
LateDecision(rec, start, end, notify_at, reference_now) ==
    IF AlreadyNotified(rec, notify_at)
    THEN Decision(FALSE, Some(start), Some(end), Some(reference_now))
    ELSE Decision(TRUE, Some(start), Some(end), Some(reference_now))

\* the same check after the cadence-window test
InWindowDecision(rec, start, end, notify_at) ==
    IF AlreadyNotified(rec, notify_at)
    THEN Decision(FALSE, Some(start), Some(end), Some(notify_at))
    ELSE Decision(TRUE, Some(start), Some(end), Some(notify_at))

\* the branches after the window is known, identical in should_send and
\* should_send_timing
DecideOnWindow(rec, start, end, reference_now, polling_end) ==
    IF HasStarted(start, reference_now)
    THEN Decision(FALSE, Some(start), Some(end), None)
    ELSE
        LET notify_at == start - rec.lead_minutes
        IN  IF IsLate(notify_at, reference_now)
            THEN LateDecision(rec, start, end, notify_at, reference_now)
            ELSE IF TooEarly(notify_at, polling_end)
            THEN Decision(FALSE, Some(start), Some(end), Some(notify_at))
            ELSE InWindowDecision(rec, start, end, notify_at)

\* one row gives one rule with one weekday: iteration has a single outcome
OnlyWeekdays(block_schedule) ==
    [i \in 1..Len(block_schedule.rules) |->
        CHOOSE d \in block_schedule.rules[i].weekdays : TRUE]

\* "start, end = earliest_sweep_window(...)" raising, or the branches
DecideOnSweepWindow(rec, w, reference_now, polling_end) ==
    IF w.exc # "none" THEN DecisionRaise(w.exc)
    ELSE DecideOnWindow(rec, w.start, w.end, reference_now, polling_end)

DecideOnBlock(rec, block_schedule, reference_now, polling_end) ==
    DecideOnSweepWindow(rec,
        earliest_sweep_window(block_schedule, OnlyWeekdays(block_schedule),
                              reference_now),
        reference_now, polling_end)

\* "if not block_schedules: return False, None, None, None"
DecideOnBlocks(rec, block_schedules, reference_now, polling_end) ==
    IF block_schedules.exc # "none" THEN DecisionRaise(block_schedules.exc)
    ELSE IF block_schedules.list = <<>> THEN Decision(FALSE, None, None, None)
    ELSE DecideOnBlock(rec, block_schedules.list[1], reference_now, polling_end)

should_send(rec, sched, reference_now, polling_end) ==
    DecideOnBlocks(rec, sweeping_schedules_to_blocks(<<sched>>),
                   reference_now, polling_end)

\* "except ValueError: return False, None, None, None", or the branches
DecideOnTimingWindow(rec, w, reference_now, polling_end) ==
    IF w.exc = "ValueError" THEN Decision(FALSE, None, None, None)
    ELSE DecideOnWindow(rec, w.start, w.end, reference_now, polling_end)

should_send_timing(rec, reg, reference_now, polling_end) ==
    DecideOnTimingWindow(rec, next_parking_regulation_window(reg, reference_now),
                         reference_now, polling_end)

-----------------------------------------------------------------------------
(* Inputs of the resolver.                                                 *)

RefDays == 6
RefBase == ymd2ord(2024, 3, 29)

Refs ==
    { (d * 24 + h) * 60 + m :
        d \in RefBase .. (RefBase + RefDays - 1), h \in {0, 1, 9, 13, 14, 23}, m \in {0, 30} }

WeekSets == (SUBSET (1..5)) \ {{}}
HourPairs == { <<12, 14>>, <<23, 1>>, <<0, 2>>, <<9, 9>> }
DayLabels == {"Mon", "Tues", "Wed", "Thu", "Fri", "Sat", "Sun"}

Row(label, weeks, hp, id) ==
    [week_day |-> label, weeks |-> weeks,
     from_hour |-> Some(hp[1]), to_hour |-> Some(hp[2]),
     holidays |-> FALSE, block_sweep_id |-> id, block |-> 1, line |-> 1]

ValidRows == { Row(l, w, hp, 999) : l \in DayLabels, w \in WeekSets, hp \in HourPairs }

NoWindow == Raise("unset")
NoIdWindow == RaiseId("unset")
NoBlocks == [exc |-> "unset", list |-> <<>>]
NoResponse == [status |-> 0, detail |-> "unset", schedules |-> <<>>]
NoRawNow == [wall |-> 0, utcoffset |-> None]
NoDecision == DecisionRaise("unset")
NoRegulation == [days |-> None, hrs_begin |-> None, hrs_end |-> None]
NoRecord == [device_token |-> "", schedule_block_sweep_id |-> 0,
             lead_minutes |-> 0, last_notified_at |-> None]

\* the variables of the decision function, where an operation leaves them unused
DecideIdle ==
    /\ regulation = NoRegulation
    /\ record = NoRecord
    /\ window_end = 0
    /\ decision = NoDecision

decideVars == <<regulation, record, window_end, decision>>

NoSweep == [sent |-> 0, skipped |-> 0, entries |-> <<>>]

\* the variables of the notification sweep, where an operation leaves them unused
SweepIdle ==
    /\ subscriptions = <<>>
    /\ sweep_log = NoSweep
    /\ notified = {}
    /\ repeated = {}
    /\ suppressed = {}
    /\ mark_failed = FALSE

sweepVars == <<subscriptions, sweep_log, notified, repeated, suppressed, mark_failed>>

\* the weekday each rule of a schedule yields first: any member of its set
\* (a rule with no weekday yields none: the resolver raises before iterating)
FirstChoices(rules) ==
    { f \in [1..Len(rules) -> 0..6] :
        \A i \in 1..Len(rules) :
            IF rules[i].weekdays = {} THEN f[i] = 0 ELSE f[i] \in rules[i].weekdays }

-----------------------------------------------------------------------------
(* SpecResolve: the occurrence resolver applied to one row.                *)

InitResolve ==
    /\ pc = "input"
    /\ schedules \in { <<r>> : r \in ValidRows }
    /\ now \in Refs
    /\ window = NoWindow
    /\ blocks = NoBlocks
    /\ id_window = NoIdWindow
    /\ response = NoResponse
    /\ raw_now = NoRawNow
    /\ DecideIdle
    /\ SweepIdle

\* next_sweep_window on the row
ResolveRow ==
    /\ pc = "input"
    /\ window' = next_sweep_window(schedules[1], now)
    /\ pc' = "row"
    /\ UNCHANGED <<schedules, now, blocks, id_window, decideVars, sweepVars, response, raw_now>>

\* the row converted alone, its rule resolved by next_sweep_window_from_rule
ResolveRule ==
    /\ pc = "input"
    /\ blocks' = sweeping_schedules_to_blocks(schedules)
    /\ blocks'.exc = "none"
    /\ \E f \in FirstChoices(blocks'.list[1].rules) :
          window' = next_sweep_window_from_rule(blocks'.list[1].rules[1], f[1], now)
    /\ pc' = "rule"
    /\ UNCHANGED <<schedules, now, id_window, decideVars, sweepVars, response, raw_now>>

NextResolve == ResolveRow \/ ResolveRule

SpecResolve == InitResolve /\ [][NextResolve]_vars
-----------------------------------------------------------------------------
(* SpecBlock: the rows of a block merged, then resolved both ways.         *)

MaxRows == 2
BlockRefDays == 6

BlockRefs ==
    { (d * 24 + h) * 60 : d \in RefBase .. (RefBase + BlockRefDays - 1), h \in {1, 13} }

BlockRows ==
    { Row(l, w, hp, 0) : l \in {"Tues", "Thu", "Sat"}, w \in {{1}, {1, 3}},
                         hp \in {<<2, 4>>, <<23, 1>>} }

\* row ids: every assignment of distinct ids 101.. to the positions
IdAssignments(n) ==
    { f \in [1..n -> 101..(100 + n)] : \A i, j \in 1..n : f[i] = f[j] => i = j }

RowLists ==
    UNION { { [i \in 1..n |-> [rows[i] EXCEPT !.block_sweep_id = ids[i]]] :
                rows \in [1..n -> BlockRows], ids \in IdAssignments(n) } : n \in 1..MaxRows }

InitBlock ==
    /\ pc = "input"
    /\ schedules \in RowLists
    /\ now \in BlockRefs
    /\ window = NoWindow
    /\ blocks = NoBlocks
    /\ id_window = NoIdWindow
    /\ response = NoResponse
    /\ raw_now = NoRawNow
    /\ DecideIdle
    /\ SweepIdle

\* sweeping_schedules_to_blocks on the rows
Convert ==
    /\ pc = "input"
    /\ blocks' = sweeping_schedules_to_blocks(schedules)
    /\ pc' = "blocks"
    /\ UNCHANGED <<schedules, now, window, id_window, decideVars, sweepVars, response, raw_now>>

\* earliest_sweep_window on the first block schedule
Earliest ==
    /\ pc = "blocks"
    /\ blocks.exc = "none"
    /\ \E f \in FirstChoices(blocks.list[1].rules) :
          window' = earliest_sweep_window(blocks.list[1], f, now)
    /\ pc' = "earliest"
    /\ UNCHANGED <<schedules, now, blocks, id_window, decideVars, sweepVars, response, raw_now>>

\* earliest_sweep_window_with_block_id on the same block and its rows
EarliestWithId ==
    /\ pc = "earliest"
    /\ id_window' = earliest_sweep_window_with_block_id(
                        blocks.list[1], RowsOfBlock(schedules, blocks.list[1].block), now)
    /\ pc' = "done"
    /\ UNCHANGED <<schedules, now, window, blocks, decideVars, sweepVars, response, raw_now>>

NextBlock == Convert \/ Earliest \/ EarliestWithId

SpecBlock == InitBlock /\ [][NextBlock]_vars

\* C2: on the schedule merged from the rows of a block, earliest_sweep_window
\* returns the same (start, end) as the row-by-row minimum of
\* earliest_sweep_window_with_block_id.
C2_MergedEqualsRowMinimum ==
    pc = "done" =>
        /\ window.exc = id_window.exc
        /\ window.start = id_window.start
        /\ window.end = id_window.end

-----------------------------------------------------------------------------
(* SpecDecide: the decision function on one record, around one occurrence  *)
(* (Friday 2024-03-08 14:00, the second Friday of the month).              *)

DecideSteps == 22
DecideBase == DateTime(2024, 3, 8, 11, 0)

DecideTimes == { DecideBase + 15 * k : k \in 0..DecideSteps }
LeadMinutes == {15, 60, 120}
CadenceMinutes == {0, 15, 60, 180}
DecideRow == Row("Fri", {2, 4}, <<14, 16>>, 999)

Regulation(days, begin, end) ==
    [days |-> Some(days), hrs_begin |-> Some(begin), hrs_end |-> Some(end)]

DecideRegulations == { Regulation("M-F", 1400, 1600), Regulation("M-Sa", 1330, 1500) }

Record(token, id, lead, last) ==
    [device_token |-> token, schedule_block_sweep_id |-> id,
     lead_minutes |-> lead, last_notified_at |-> last]

LastValues ==
    {None} \cup { Some(t) : t \in DecideTimes } \cup { Some(DecideBase - 14 * MinutesPerDay) }

InitDecide ==
    /\ pc = "input"
    /\ schedules = <<DecideRow>>
    /\ regulation \in DecideRegulations
    /\ now \in DecideTimes
    /\ \E c \in CadenceMinutes : window_end = now + c
    /\ \E lead \in LeadMinutes, last \in LastValues :
          record = Record("tok", 999, lead, last)
    /\ decision = NoDecision
    /\ window = NoWindow
    /\ blocks = NoBlocks
    /\ id_window = NoIdWindow
    /\ response = NoResponse
    /\ raw_now = NoRawNow
    /\ SweepIdle

ShouldSend ==
    /\ pc = "input"
    /\ decision' = should_send(record, schedules[1], now, window_end)
    /\ pc' = "should_send"
    /\ UNCHANGED <<schedules, now, window, blocks, id_window, regulation, record, window_end, sweepVars, response, raw_now>>

ShouldSendTiming ==
    /\ pc = "input"
    /\ decision' = should_send_timing(record, regulation, now, window_end)
    /\ pc' = "should_send_timing"
    /\ UNCHANGED <<schedules, now, window, blocks, id_window, regulation, record, window_end, sweepVars, response, raw_now>>

NextDecide == ShouldSend \/ ShouldSendTiming

SpecDecide == InitDecide /\ [][NextDecide]_vars

\* a decision on a computed occurrence
Decided ==
    /\ pc \in {"should_send", "should_send_timing"}
    /\ decision.exc = "none"
    /\ decision.start # None

occurrence_start == Val(decision.start)
ideal_notify_at == occurrence_start - record.lead_minutes
LastAtOrAfterIdeal ==
    record.last_notified_at # None /\ Val(record.last_notified_at) >= ideal_notify_at

\* C5: late branch. The occurrence is upcoming and its ideal moment already
\* passed: send, unless last_notified_at is set and at or after the ideal
\* moment; the polling window end plays no part.
C5_LateBranch ==
    (Decided /\ occurrence_start > now /\ ideal_notify_at < now) =>
        decision.send = ~LastAtOrAfterIdeal

C5_Witness ==
    /\ Decided /\ occurrence_start > now /\ ideal_notify_at < now
    /\ record.last_notified_at = None
    /\ window_end = now
    /\ decision.send
    /\ decision.notify_at = Some(now)

\* C6: in-window branch. With now <= ideal < polling window end for an
\* upcoming occurrence, send exactly when last_notified_at is unset or
\* before the ideal moment.
C6_InWindowBranch ==
    (Decided /\ occurrence_start > now
        /\ now <= ideal_notify_at /\ ideal_notify_at < window_end) =>
        decision.send = (record.last_notified_at = None
                         \/ Val(record.last_notified_at) < ideal_notify_at)

\* lead 60, start 14:00, now 12:30, window end 13:30: send
C6_Witness ==
    /\ pc = "should_send"
    /\ record.lead_minutes = 60 /\ record.last_notified_at = None
    /\ now = DateTime(2024, 3, 8, 12, 30)
    /\ window_end = DateTime(2024, 3, 8, 13, 30)
    /\ decision = Decision(TRUE, Some(DateTime(2024, 3, 8, 14, 0)),
                           Some(DateTime(2024, 3, 8, 16, 0)),
                           Some(DateTime(2024, 3, 8, 13, 0)))

\* C7: too-early branch. With the ideal moment at or after both now and the
\* polling window end, never send, and report the ideal moment.
C7_TooEarlyBranch ==
    (Decided /\ ideal_notify_at >= now /\ ideal_notify_at >= window_end) =>
        /\ decision.send = FALSE
        /\ decision.notify_at = Some(ideal_notify_at)

C7_Witness ==
    /\ Decided /\ ideal_notify_at >= now /\ ideal_notify_at = window_end
    /\ record.last_notified_at = None
    /\ ~decision.send

\* C8: an occurrence that has begun or passed is never notified, and no
\* notify time is reported for it.
C8_StartedNeverSends ==
    (Decided /\ occurrence_start <= now) =>
        /\ decision.send = FALSE
        /\ decision.notify_at = None

C8_Witness ==
    /\ Decided /\ occurrence_start = now
    /\ record.last_notified_at = None
    /\ decision = Decision(FALSE, decision.start, decision.end, None)

-----------------------------------------------------------------------------
(* Reference definition of the occurrences of a pattern, day by day: a day *)
(* is an occurrence day when it falls on the weekday and is the n-th such  *)
(* weekday of its month for an active n.                                   *)

DayOfMonthOfOrd(ord) == DayOf(ord * MinutesPerDay)

IsOccurrenceDay(ord, weekday, weeks) ==
    /\ WeekdayOfOrd(ord) = weekday
    /\ ((DayOfMonthOfOrd(ord) - 1) \div 7) + 1 \in weeks

OccStart(ord, from_hour) == (ord * 24 + from_hour) * 60

OccEnd(ord, from_hour, to_hour) ==
    IF to_hour <= from_hour
    THEN ((ord + 1) * 24 + to_hour) * 60
    ELSE (ord * 24 + to_hour) * 60

RowWeekday(sched) == WEEKDAY_LOOKUP[Lower(sched.week_day)]
RowFrom(sched) == Val(sched.from_hour)
RowTo(sched) == Val(sched.to_hour)

RowOccurs(sched, ord) == IsOccurrenceDay(ord, RowWeekday(sched), sched.weeks)
RowStart(sched, ord) == OccStart(ord, RowFrom(sched))
RowEnd(sched, ord) == OccEnd(ord, RowFrom(sched), RowTo(sched))

Resolved == pc \in {"row", "rule"}

\* the days on which an occurrence still relevant to the reference can start
\* before a given start: from the day before the reference on
DaysUpTo(reference, start) == (OrdOf(reference) - 1) .. OrdOf(start)

\* the returned window is an occurrence of the row's pattern
IsOccurrenceOf(sched, w) ==
    /\ w.exc = "none"
    /\ RowOccurs(sched, OrdOf(w.start))
    /\ w.start = RowStart(sched, OrdOf(w.start))
    /\ w.end = RowEnd(sched, OrdOf(w.start))

\* no occurrence that ends after the reference starts before w
NoEarlierRelevant(sched, reference, w) ==
    \A ord \in DaysUpTo(reference, w.start) :
        (RowOccurs(sched, ord) /\ RowEnd(sched, ord) > reference)
            => RowStart(sched, ord) >= w.start

\* C1: the window the resolver returns for a valid row is the earliest
\* occurrence of the pattern whose end is after the reference.
C1_EarliestRelevantOccurrence ==
    Resolved =>
        /\ IsOccurrenceOf(schedules[1], window)
        /\ window.end > now
        /\ NoEarlierRelevant(schedules[1], now, window)

\* an occurrence of the row that contains the reference (start <= now < end)
InsideDays(sched, reference) ==
    { ord \in (OrdOf(reference) - 1) .. OrdOf(reference) :
        /\ RowOccurs(sched, ord)
        /\ RowStart(sched, ord) <= reference
        /\ reference < RowEnd(sched, ord) }

\* C3: when the reference lies inside an occurrence, the resolver returns
\* exactly that occurrence, also when it began on the previous day or month.
C3_InsideReturnsThatOccurrence ==
    Resolved =>
        \A ord \in InsideDays(schedules[1], now) :
            window = Ok(RowStart(schedules[1], ord), RowEnd(schedules[1], ord))

\* occurrence days of the row whose window ends exactly at the reference
EndingDays(sched, reference) ==
    { ord \in (OrdOf(reference) - 1) .. OrdOf(reference) :
        RowOccurs(sched, ord) /\ RowEnd(sched, ord) = reference }

\* C4: a reference equal to the end instant of an occurrence is past that
\* occurrence: the resolver returns the next occurrence of the pattern.
C4_EndInstantGivesNext ==
    (Resolved /\ EndingDays(schedules[1], now) # {}) =>
        /\ IsOccurrenceOf(schedules[1], window)
        /\ \A ord \in EndingDays(schedules[1], now) :
              window.start > RowStart(schedules[1], ord)
        /\ window.start >= now
        /\ NoEarlierRelevant(schedules[1], now, window)

C4_Witness ==
    /\ pc = "row"
    /\ EndingDays(schedules[1], now) # {}
    /\ window.exc = "none"
    /\ window.start > now

-----------------------------------------------------------------------------
(* scripts/send_notifications.py: main, one run of the notification sweep, *)
(* and the subscription table of repositories/subscriptions.py.            *)
(*                                                                         *)
(* main reads record.subscription_type and calls                           *)
(* mark_notified(device_token, schedule_block_sweep_id, notified_at=...),  *)
(* while SubscriptionRecord in repositories/subscriptions.py has no such   *)
(* field and its mark_notified takes the device token alone. The record    *)
(* below has the field main reads, and mark_notified has the effect of its *)
(* body: the row of that device token gets last_notified_at. Device tokens *)
(* are unique in the table (the upsert conflicts on device_token), so the  *)
(* row is the same whether or not the row id takes part in the filter.     *)

Subscription(token, type, id, lead, last) ==
    [device_token |-> token, subscription_type |-> type,
     schedule_block_sweep_id |-> id, lead_minutes |-> lead,
     last_notified_at |-> last]

\* the schedules table, by block_sweep_id: two weekly Friday rows and a
\* holiday-only row
ScheduleTable ==
    << Row("Fri", 1..5, <<12, 14>>, 1),
       Row("Fri", 1..5, <<13, 15>>, 2),
       Row("Holiday", 1..5, <<12, 14>>, 3) >>

\* the parking_regulations table, by id
RegulationTable == << Regulation("M-F", 1400, 1600) >>

\* what the external calls of one record do: all succeed, or the store read,
\* the push, or the mark fails
Failures == {"none", "fetch", "push", "mark"}

NoCache == [schedules |-> {}, regulations |-> {}]

\* one record of the loop: the step it ended at, whether the store was asked
\* for its row, the decision, and the value handed to mark_notified
Entry(rec, step, asked, verdict, marked) ==
    [record |-> rec, step |-> step, asked |-> asked,
     decision |-> verdict, marked |-> marked]

MarkedValue_early(notify_at, reference_now) ==
    IF notify_at # None THEN Val(notify_at) - 30 ELSE reference_now

\* "notified_at=notify_at or now"
MarkedValue(notify_at, reference_now) ==
    IF notify_at # None THEN Val(notify_at) ELSE reference_now

Deliver_failed_mark_stored(rec, verdict, asked, fail, reference_now) ==
    IF verdict.exc # "none" THEN Entry(rec, "decide_failed", asked, verdict, None)
    ELSE IF ~verdict.send \/ verdict.start = None \/ verdict.end = None
    THEN Entry(rec, "no_send", asked, verdict, None)
    ELSE IF fail = "push" THEN Entry(rec, "push_failed", asked, verdict, None)
    ELSE IF fail = "mark"
    THEN Entry(rec, "mark_failed", asked, verdict,
               Some(MarkedValue(verdict.notify_at, reference_now)))
    ELSE Entry(rec, "sent", asked, verdict,
               Some(MarkedValue(verdict.notify_at, reference_now)))

Deliver_marks_unsent(rec, verdict, asked, fail, reference_now) ==
    IF verdict.exc # "none" THEN Entry(rec, "decide_failed", asked, verdict, None)
    ELSE IF ~verdict.send \/ verdict.start = None \/ verdict.end = None
    THEN Entry(rec, "no_send", asked, verdict, None)
    ELSE IF fail = "push"
    THEN Entry(rec, "push_failed", asked, verdict,
               Some(MarkedValue(verdict.notify_at, reference_now)))
    ELSE IF fail = "mark" THEN Entry(rec, "mark_failed", asked, verdict, None)
    ELSE Entry(rec, "sent", asked, verdict,
               Some(MarkedValue(verdict.notify_at, reference_now)))

\* "if not should: skipped += 1; continue", send_push_v1, mark_notified,
\* "sent += 1"; an exception anywhere ends the record in the except clause
Deliver(rec, verdict, asked, fail, reference_now) ==
    IF verdict.exc # "none" THEN Entry(rec, "decide_failed", asked, verdict, None)
    ELSE IF ~verdict.send \/ verdict.start = None \/ verdict.end = None
    THEN Entry(rec, "no_send", asked, verdict, None)
    ELSE IF fail = "push" THEN Entry(rec, "push_failed", asked, verdict, None)
    ELSE IF fail = "mark" THEN Entry(rec, "mark_failed", asked, verdict, None)
    ELSE Entry(rec, "sent", asked, verdict,
               Some(MarkedValue(verdict.notify_at, reference_now)))

\* what should_send / should_send_timing returns for a record once its row
\* is at hand; it depends on the record, the row and the two instants only
Verdict(rec, reference_now, polling_end) ==
    IF rec.subscription_type = "sweeping"
    THEN should_send(rec, ScheduleTable[rec.schedule_block_sweep_id],
                     reference_now, polling_end)
    ELSE should_send_timing(rec, RegulationTable[rec.schedule_block_sweep_id],
                            reference_now, polling_end)

\* schedule_cache.get(id), else get_schedule_by_block_sweep_id(id), which
\* raises when the store cannot be reached or has no such row
_process_sweeping_subscription(rec, verdict, cache, fail, reference_now) ==
    IF /\ rec.schedule_block_sweep_id \notin cache.schedules
       /\ (fail = "fetch" \/ rec.schedule_block_sweep_id \notin DOMAIN ScheduleTable)
    THEN Entry(rec, "fetch_failed", TRUE, NoDecision, None)
    ELSE Deliver(rec, verdict, rec.schedule_block_sweep_id \notin cache.schedules,
                 fail, reference_now)

_process_timing_subscription(rec, verdict, cache, fail, reference_now) ==
    IF /\ rec.schedule_block_sweep_id \notin cache.regulations
       /\ (fail = "fetch" \/ rec.schedule_block_sweep_id \notin DOMAIN RegulationTable)
    THEN Entry(rec, "fetch_failed", TRUE, NoDecision, None)
    ELSE Deliver(rec, verdict, rec.schedule_block_sweep_id \notin cache.regulations,
                 fail, reference_now)

\* the body of "for record in subscriptions"
ProcessRecord(rec, verdict, cache, fail, reference_now) ==
    IF rec.subscription_type = "sweeping"
    THEN _process_sweeping_subscription(rec, verdict, cache, fail, reference_now)
    ELSE IF rec.subscription_type = "timing"
    THEN _process_timing_subscription(rec, verdict, cache, fail, reference_now)
    ELSE Entry(rec, "unknown_type", FALSE, NoDecision, None)

CacheAfter_keeps_failed(cache, entry) ==
    IF ~entry.asked THEN cache
    ELSE IF entry.record.subscription_type = "sweeping"
    THEN [cache EXCEPT !.schedules = @ \cup {entry.record.schedule_block_sweep_id}]
    ELSE [cache EXCEPT !.regulations = @ \cup {entry.record.schedule_block_sweep_id}]

\* "schedule_cache[id] = schedule" / "regulation_cache[id] = regulation"
CacheAfter(cache, entry) ==
    IF ~entry.asked \/ entry.step = "fetch_failed" THEN cache
    ELSE IF entry.record.subscription_type = "sweeping"
    THEN [cache EXCEPT !.schedules = @ \cup {entry.record.schedule_block_sweep_id}]
    ELSE [cache EXCEPT !.regulations = @ \cup {entry.record.schedule_block_sweep_id}]

NoProgress == [entries |-> <<>>, cache |-> NoCache]

Extend(progress, entry) ==
    [entries |-> Append(progress.entries, entry),
     cache   |-> CacheAfter(progress.cache, entry)]

RECURSIVE SweepRecords_abort(_, _, _, _, _, _)
SweepRecords_abort(records, verdicts, fails, reference_now, i, progress) ==
    IF \/ i > Len(records)
       \/ /\ i > 1
          /\ progress.entries[i - 1].step \notin {"unknown_type", "no_send", "sent"}
    THEN progress
    ELSE SweepRecords_abort(records, verdicts, fails, reference_now, i + 1,
            Extend(progress,
                   ProcessRecord(records[i], verdicts[i], progress.cache, fails[i],
                                 reference_now)))

\* the loop over the list fetched at the start of the run; verdicts[i] is
\* what the decision function returns for records[i] in this run
RECURSIVE SweepRecords(_, _, _, _, _, _)
SweepRecords(records, verdicts, fails, reference_now, i, progress) ==
    IF i > Len(records) THEN progress
    ELSE SweepRecords(records, verdicts, fails, reference_now, i + 1,
            Extend(progress,
                   ProcessRecord(records[i], verdicts[i], progress.cache, fails[i],
                                 reference_now)))

\* a record whose row the store does not have never reaches the decision
Verdicts(records, reference_now, polling_end) ==
    [i \in 1..Len(records) |->
        IF \/ records[i].subscription_type \notin {"sweeping", "timing"}
           \/ /\ records[i].subscription_type = "sweeping"
              /\ records[i].schedule_block_sweep_id \notin DOMAIN ScheduleTable
           \/ /\ records[i].subscription_type = "timing"
              /\ records[i].schedule_block_sweep_id \notin DOMAIN RegulationTable
        THEN NoDecision
        ELSE Verdict(records[i], reference_now, polling_end)]

\* PATCH ...?device_token=eq.<token> {"last_notified_at": notified_at}
mark_notified(table, device_token, notified_at) ==
    [i \in DOMAIN table |->
        IF table[i].device_token = device_token
        THEN [table[i] EXCEPT !.last_notified_at = Some(notified_at)]
        ELSE table[i]]

\* the table after the marks of one run
RECURSIVE ApplyMarks(_, _, _)
ApplyMarks(table, entries, i) ==
    IF i > Len(entries) THEN table
    ELSE ApplyMarks(IF entries[i].marked = None THEN table
                    ELSE mark_notified(table, entries[i].record.device_token,
                                       Val(entries[i].marked)),
                    entries, i + 1)

\* the two counters main logs when the run ends
SweepLog(entries) ==
    [sent    |-> Cardinality({ i \in 1..Len(entries) : entries[i].step = "sent" }),
     skipped |-> Cardinality({ i \in 1..Len(entries) : entries[i].step # "sent" }),
     entries |-> entries]

\* POST ...?on_conflict=device_token, Prefer: resolution=merge-duplicates:
\* the payload carries no last_notified_at, so an existing row keeps its own
upsert_subscription(table, device_token, schedule_block_sweep_id, lead_minutes) ==
    IF \E i \in DOMAIN table : table[i].device_token = device_token
    THEN [i \in DOMAIN table |->
            IF table[i].device_token = device_token
            THEN [table[i] EXCEPT !.schedule_block_sweep_id = schedule_block_sweep_id,
                                  !.lead_minutes = lead_minutes]
            ELSE table[i]]
    ELSE Append(table, Subscription(device_token, "sweeping",
                                    schedule_block_sweep_id, lead_minutes, None))

-----------------------------------------------------------------------------
(* What the runs did to each occurrence.                                   *)

\* the occurrence a decision was about
OccurrenceOf(entry) ==
    << entry.record.device_token, entry.record.subscription_type,
       entry.record.schedule_block_sweep_id, Val(entry.decision.start) >>

\* the occurrences send_push_v1 returned for in a run
Pushed(entries) ==
    { OccurrenceOf(entries[i]) :
        i \in { j \in 1..Len(entries) : entries[j].step \in {"sent", "mark_failed"} } }

\* the decision was send=False and came from the last_notified_at check
DeclinedByCheck(entry, reference_now, polling_end) ==
    /\ entry.step = "no_send"
    /\ entry.decision.start # None
    /\ ~HasStarted(Val(entry.decision.start), reference_now)
    /\ \/ IsLate(Val(entry.decision.start) - entry.record.lead_minutes, reference_now)
       \/ ~TooEarly(Val(entry.decision.start) - entry.record.lead_minutes, polling_end)
    /\ AlreadyNotified(entry.record,
                       Val(entry.decision.start) - entry.record.lead_minutes)

Declined(entries, reference_now, polling_end) ==
    { OccurrenceOf(entries[i]) :
        i \in { j \in 1..Len(entries) :
                  DeclinedByCheck(entries[j], reference_now, polling_end) } }

\* the state after a run whose loop produced these entries
RecordSweep(entries, reference_now, polling_end) ==
    /\ subscriptions' = ApplyMarks(subscriptions, entries, 1)
    /\ sweep_log' = SweepLog(entries)
    /\ notified' = notified \cup Pushed(entries)
    /\ repeated' = repeated \cup (Pushed(entries) \cap notified)
    /\ suppressed' = suppressed \cup
                        (Declined(entries, reference_now, polling_end) \ notified)
    /\ mark_failed' = (mark_failed \/
                        \E i \in 1..Len(entries) : entries[i].step = "mark_failed")

\* the runs of main at one instant and cadence, one for each way the
\* external calls can fail
RunsAt(verdicts, reference_now, polling_end) ==
    \E fails \in [1..Len(subscriptions) -> Failures] :
        RecordSweep(SweepRecords(subscriptions, verdicts, fails, reference_now,
                                 1, NoProgress).entries,
                    reference_now, polling_end)

-----------------------------------------------------------------------------
(* SpecSweep: runs of main at increasing instants over a fixed table.      *)

SweepDays == 2
SweepBase == DateTime(2024, 3, 8, 0, 0)
SweepMinutes == {600, 630, 660, 690, 750}

\* the instants a run may start at: some Fridays, 10:00 to 12:30
SweepTimes ==
    { SweepBase + d * 7 * MinutesPerDay + m : d \in 0..(SweepDays - 1), m \in SweepMinutes }

\* NOTIFY_CADENCE_MINUTES
SweepCadences == {0, 30, 90}

SweepTokens == <<"d1">>

SubscriptionKinds ==
    { <<"sweeping", 1, 60>>, <<"sweeping", 1, 120>>, <<"sweeping", 2, 60>>,
      <<"sweeping", 3, 60>>, <<"timing", 1, 60>>, <<"other", 1, 60>> }

\* tables of new subscriptions, one per device token
SubscriptionLists ==
    UNION { { [i \in 1..n |->
                 Subscription(SweepTokens[i], k[i][1], k[i][2], k[i][3], None)] :
              k \in [1..n -> SubscriptionKinds] } : n \in 1..Len(SweepTokens) }

ResolverIdle ==
    /\ schedules = <<>>
    /\ window = NoWindow
    /\ blocks = NoBlocks
    /\ id_window = NoIdWindow
    /\ response = NoResponse
    /\ raw_now = NoRawNow

InitSweep ==
    /\ pc = "sweep"
    /\ subscriptions \in SubscriptionLists
    /\ now = SweepBase
    /\ window_end = SweepBase
    /\ sweep_log = NoSweep
    /\ notified = {}
    /\ repeated = {}
    /\ suppressed = {}
    /\ mark_failed = FALSE
    /\ regulation = NoRegulation
    /\ record = NoRecord
    /\ decision = NoDecision
    /\ ResolverIdle

\* main: now = datetime.now(), window_end = now + cadence, the loop, the log
Sweep ==
    /\ pc = "sweep"
    /\ \E t \in SweepTimes, cadence \in SweepCadences :
          /\ t > now
          /\ now' = t
          /\ window_end' = t + cadence
          /\ \E verdicts \in {Verdicts(subscriptions, t, t + cadence)} :
                RunsAt(verdicts, t, t + cadence)
    /\ UNCHANGED <<pc, schedules, window, blocks, id_window, regulation, record, decision, response, raw_now>>

NextSweep == Sweep

SpecSweep == InitSweep /\ [][NextSweep]_vars

\* C9: while every delivered push has been followed by a stored mark, no
\* subscription has been pushed twice for the same occurrence.
C9_AtMostOncePerOccurrence == ~mark_failed => repeated = {}

\* an occurrence pushed and marked in an earlier run, declined by the check
\* in the run that just ended
C9_Witness ==
    /\ ~mark_failed
    /\ \E i \in 1..Len(sweep_log.entries) :
          /\ DeclinedByCheck(sweep_log.entries[i], now, window_end)
          /\ OccurrenceOf(sweep_log.entries[i]) \in notified

-----------------------------------------------------------------------------
(* SpecService: runs of main interleaved with POST /subscriptions.         *)

ServiceTokens == {"d1"}
\* the requests a client posts: <<schedule_block_sweep_id, lead_minutes>>
SubscribeRequests == { <<1, 60>>, <<2, 120>> }

InitService ==
    /\ pc = "sweep"
    /\ subscriptions = <<>>
    /\ now = SweepBase
    /\ window_end = SweepBase
    /\ sweep_log = NoSweep
    /\ notified = {}
    /\ repeated = {}
    /\ suppressed = {}
    /\ mark_failed = FALSE
    /\ regulation = NoRegulation
    /\ record = NoRecord
    /\ decision = NoDecision
    /\ ResolverIdle

\* SubscriptionService.subscribe: the upsert is stored before the response
\* is built
Subscribe ==
    /\ pc = "sweep"
    /\ \E token \in ServiceTokens, request \in SubscribeRequests :
          subscriptions' = upsert_subscription(subscriptions, token,
                                               request[1], request[2])
    /\ UNCHANGED <<pc, schedules, now, window, blocks, id_window, decideVars,
                   sweep_log, notified, repeated, suppressed, mark_failed, response, raw_now>>

NextService == Sweep \/ Subscribe

SpecService == InitService /\ [][NextService]_vars

\* C10: the last_notified_at check never declines an upcoming occurrence
\* that no push was delivered for.
C10_CheckDeclinesOnlyNotified == suppressed = {}

-----------------------------------------------------------------------------
(* SpecRun: one run of main over a table of one or two records, some of    *)
(* them notified before.                                                   *)

RunTokens == <<"d1", "d2">>

\* SubscriptionKinds, and a subscription to a row the schedules table lacks
RunKinds == SubscriptionKinds \cup { <<"sweeping", 9, 60>> }

\* never notified, or notified at 11:00 of the first Friday
RunLasts == { None, Some(SweepBase + 660) }

RunTables ==
    UNION { { [i \in 1..n |->
                 Subscription(RunTokens[i], k[i][1], k[i][2], k[i][3], l[i])] :
              k \in [1..n -> RunKinds], l \in [1..n -> RunLasts] } :
            n \in 1..Len(RunTokens) }

InitRun ==
    /\ pc = "sweep"
    /\ subscriptions \in RunTables
    /\ now = SweepBase
    /\ window_end = SweepBase
    /\ sweep_log = NoSweep
    /\ notified = {}
    /\ repeated = {}
    /\ suppressed = {}
    /\ mark_failed = FALSE
    /\ regulation = NoRegulation
    /\ record = NoRecord
    /\ decision = NoDecision
    /\ ResolverIdle

\* the first run of main on the table
Run ==
    /\ sweep_log = NoSweep
    /\ Sweep

NextRun == Run

SpecRun == InitRun /\ [][NextRun]_vars

\* the value the spec asks the caller to persist after a send: the ideal
\* instant, or the reference when the ideal instant has passed
PersistedValue(entry) ==
    IF Val(entry.decision.start) - entry.record.lead_minutes < now
    THEN now
    ELSE Val(entry.decision.start) - entry.record.lead_minutes

\* C11: after a run, the row of each listed record carries a new
\* last_notified_at exactly when the record was decided send, pushed and
\* marked in that run, the value being the ideal instant on the in-window
\* branch and the reference on the late branch; every other row keeps the
\* last_notified_at it was listed with.
C11_MarkOnlyAfterPush ==
    /\ Len(sweep_log.entries) \in {0, Len(subscriptions)}
    /\ \A i \in 1..Len(sweep_log.entries) :
          /\ subscriptions[i].device_token = sweep_log.entries[i].record.device_token
          /\ IF sweep_log.entries[i].step = "sent"
             THEN /\ sweep_log.entries[i].decision.send
                  /\ subscriptions[i].last_notified_at =
                        Some(PersistedValue(sweep_log.entries[i]))
             ELSE subscriptions[i].last_notified_at =
                        sweep_log.entries[i].record.last_notified_at

\* one run that marked a late notification with the reference, and left a
\* notified record whose push failed with the value it had
C11_Witness ==
    /\ Len(sweep_log.entries) = 2
    /\ sweep_log.entries[1].step = "sent"
    /\ sweep_log.entries[1].decision.notify_at = Some(now)
    /\ subscriptions[1].last_notified_at = Some(now)
    /\ sweep_log.entries[2].step = "push_failed"
    /\ sweep_log.entries[2].record.last_notified_at # None
    /\ subscriptions[2].last_notified_at = sweep_log.entries[2].record.last_notified_at

\* a decision about an occurrence still ahead that the timing tests let
\* through to the last_notified_at check: the late or the in-window branch
TimingSelects(entry, reference_now, polling_end) ==
    /\ entry.decision.exc = "none"
    /\ entry.decision.start # None
    /\ ~HasStarted(Val(entry.decision.start), reference_now)
    /\ \/ IsLate(Val(entry.decision.start) - entry.record.lead_minutes, reference_now)
       \/ ~TooEarly(Val(entry.decision.start) - entry.record.lead_minutes, polling_end)

\* the run that ended pushed for record i and its mark failed
MarkFailedAt(i) ==
    /\ i <= Len(subscriptions)
    /\ sweep_log.entries[i].step = "mark_failed"

\* the next run decides on the same occurrence for record i, before it
\* starts, with timing that selects it
SelectedAgainAt(i) ==
    /\ i <= Len(sweep_log'.entries)
    /\ sweep_log'.entries[i].decision.start = sweep_log.entries[i].decision.start
    /\ TimingSelects(sweep_log'.entries[i], now', window_end')

\* C12: when the mark of a delivered push fails, the push stays delivered
\* and the row keeps the last_notified_at it was listed with; and the next
\* run, if it comes before the occurrence starts with timing that selects
\* it, decides send=True for the same occurrence again.
C12_AtLeastOnce ==
    [][ \A i \in 1..Len(sweep_log.entries) :
          MarkFailedAt(i) =>
             /\ OccurrenceOf(sweep_log.entries[i]) \in notified
             /\ subscriptions[i].last_notified_at =
                   sweep_log.entries[i].record.last_notified_at
             /\ SelectedAgainAt(i) => sweep_log'.entries[i].decision.send ]_vars

\* a second push delivered for an occurrence whose first mark had failed
C12_Witness ==
    /\ mark_failed
    /\ \E i \in 1..Len(sweep_log.entries) :
          /\ sweep_log.entries[i].step \in {"sent", "mark_failed"}
          /\ OccurrenceOf(sweep_log.entries[i]) \in repeated

\* the steps a record ends at through the except clause of the loop
FailedSteps == {"fetch_failed", "decide_failed", "push_failed", "mark_failed"}

\* C13: a run gives every record of the list it fetched one entry, in list
\* order, whatever happened to the records before it; a record that failed
\* at the store read, the window computation, the push or the mark is
\* counted as skipped; a record whose row was read is decided as the
\* decision function decides it on its own; and sent + skipped is the
\* number of records fetched.
C13_FailureIsolation ==
    sweep_log # NoSweep =>
        /\ Len(sweep_log.entries) = Len(subscriptions)
        /\ sweep_log.sent + sweep_log.skipped = Len(subscriptions)
        /\ sweep_log.skipped >=
              Cardinality({ i \in 1..Len(sweep_log.entries) :
                              sweep_log.entries[i].step \in FailedSteps })
        /\ \A i \in 1..Len(sweep_log.entries) :
              /\ sweep_log.entries[i].record.device_token = subscriptions[i].device_token
              /\ sweep_log.entries[i].step \in
                    FailedSteps \cup {"unknown_type", "no_send", "sent"}
              /\ sweep_log.entries[i].step \notin {"fetch_failed", "unknown_type"} =>
                    sweep_log.entries[i].decision =
                        Verdict(sweep_log.entries[i].record, now, window_end)

\* a run whose first record failed in the window computation and whose
\* second record was pushed and marked
C13_Witness ==
    /\ Len(sweep_log.entries) = 2
    /\ sweep_log.entries[1].step = "decide_failed"
    /\ sweep_log.entries[2].step = "sent"
    /\ sweep_log.sent = 1
    /\ sweep_log.skipped = 1

-----------------------------------------------------------------------------
(* SpecMerge: the rule merger on lists of raw rows of one or two blocks,   *)
(* with one or two geometries.                                             *)

MergeMaxRows == 2

MergeRows ==
    { [Row(l, w, hp, 0) EXCEPT !.holidays = h, !.block = b, !.line = g] :
        l \in {"Tues", "Thu"}, w \in {{1}, {1, 3}}, hp \in {<<2, 4>>, <<9, 11>>},
        h \in BOOLEAN, b \in {1, 2}, g \in {1, 2} }

MergeLists ==
    UNION { [1..n -> MergeRows] : n \in 1..MergeMaxRows }

InitMerge ==
    /\ pc = "input"
    /\ schedules \in MergeLists
    /\ now = 0
    /\ window = NoWindow
    /\ blocks = NoBlocks
    /\ id_window = NoIdWindow
    /\ response = NoResponse
    /\ raw_now = NoRawNow
    /\ DecideIdle
    /\ SweepIdle

NextMerge == Convert

SpecMerge == InitMerge /\ [][NextMerge]_vars

\* the combination a raw row carries: hours, active weeks (None when no
\* flag is set), holiday flag
RowCombination(row) ==
    << Val(row.from_hour), Val(row.to_hour),
       IF row.weeks = {} THEN None ELSE Some(row.weeks), row.holidays >>

RuleCombination(rule) ==
    << rule.time_window.start, rule.time_window.end,
       rule.weeks_of_month, rule.skip_holidays >>

\* the block schedules of the output for a block key
SchedulesOf(block) ==
    { k \in 1..Len(blocks.list) : blocks.list[k].block = block }

\* the rules of the output (schedule index, rule index) a row went into:
\* same block, same combination, the row's weekday among the rule's
RulesHolding(row) ==
    { kr \in { <<k, r>> : k \in SchedulesOf(row.block), r \in 1..Len(schedules) } :
        /\ kr[2] <= Len(blocks.list[kr[1]].rules)
        /\ RuleCombination(blocks.list[kr[1]].rules[kr[2]]) = RowCombination(row)
        /\ RowWeekday(row) \in blocks.list[kr[1]].rules[kr[2]].weekdays }

Merged == pc = "blocks" /\ blocks.exc = "none"

\* C14: after a merge, every row is held by exactly one rule, and two rows
\* of the same block are held by the same rule exactly when they carry the
\* same time window, the same weeks_of_month and the same holiday flag.
C14_SameRuleIffSameCombination ==
    Merged =>
        \A i, j \in 1..Len(schedules) :
            /\ Cardinality(RulesHolding(schedules[i])) = 1
            /\ schedules[i].block = schedules[j].block =>
                  ( RulesHolding(schedules[i]) = RulesHolding(schedules[j])
                    <=> RowCombination(schedules[i]) = RowCombination(schedules[j]) )

\* the two examples: Tues and Thu rows otherwise identical give one rule
\* with weekdays {Tues, Thu}
C14_Witness ==
    /\ Merged
    /\ Len(schedules) = 2
    /\ schedules[1].week_day = "Tues"
    /\ schedules[2] = [schedules[1] EXCEPT !.week_day = "Thu"]
    /\ Len(blocks.list) = 1
    /\ Len(blocks.list[1].rules) = 1
    /\ blocks.list[1].rules[1].weekdays = {1, 3}

\* rows of the input with a given block key and combination
RowsWith(block, combination) ==
    { i \in 1..Len(schedules) :
        schedules[i].block = block /\ RowCombination(schedules[i]) = combination }

FirstRow(rows) == CHOOSE i \in rows : \A j \in rows : i <= j

ConsistentGeometry ==
    \A i, j \in 1..Len(schedules) :
        schedules[i].block = schedules[j].block => schedules[i].line = schedules[j].line

RulesInOrder(block_schedule) ==
    \A r, q \in 1..Len(block_schedule.rules) :
        r < q =>
            /\ RuleCombination(block_schedule.rules[r]) # RuleCombination(block_schedule.rules[q])
            /\ FirstRow(RowsWith(block_schedule.block, RuleCombination(block_schedule.rules[r])))
                 < FirstRow(RowsWith(block_schedule.block, RuleCombination(block_schedule.rules[q])))

RulesCarryUnion(block_schedule) ==
    \A r \in 1..Len(block_schedule.rules) :
        /\ RowsWith(block_schedule.block, RuleCombination(block_schedule.rules[r])) # {}
        /\ block_schedule.rules[r].weekdays =
              { RowWeekday(schedules[i]) :
                  i \in RowsWith(block_schedule.block, RuleCombination(block_schedule.rules[r])) }

C16_GeometryMismatchRaises ==
    (pc = "blocks" /\ ~ConsistentGeometry) =>
        /\ blocks.exc = "ValueError"
        /\ blocks.list = <<>>
        /\ \E i, j \in 1..Len(schedules) :
              /\ schedules[i].block = InconsistentBlock(schedules)
              /\ schedules[j].block = InconsistentBlock(schedules)
              /\ schedules[i].line # schedules[j].line

\* the second geometry first, then the first one, on the same block
C16_Witness ==
    /\ pc = "blocks"
    /\ Len(schedules) = 2
    /\ schedules[1].block = schedules[2].block
    /\ schedules[1].line = 2
    /\ schedules[2].line = 1
    /\ blocks.exc = "ValueError"

-----------------------------------------------------------------------------
(* SpecNoWeeks: one row, with or without active weeks, resolved as a row,  *)
(* as the rule the merger makes of it, and as the schedule of that rule.   *)

NoWeeksRefDays == 3

NoWeeksRefs ==
    { (d * 24 + h) * 60 : d \in RefBase .. (RefBase + NoWeeksRefDays - 1), h \in {1, 3, 13} }

NoWeeksRows ==
    { Row(l, w, hp, 0) : l \in {"Tues", "Sat"}, w \in {{}, {1}, {2, 4}},
                         hp \in {<<2, 4>>, <<23, 1>>} }

InitNoWeeks ==
    /\ pc = "input"
    /\ schedules \in { <<r>> : r \in NoWeeksRows }
    /\ now \in NoWeeksRefs
    /\ window = NoWindow
    /\ blocks = NoBlocks
    /\ id_window = NoIdWindow
    /\ response = NoResponse
    /\ raw_now = NoRawNow
    /\ DecideIdle
    /\ SweepIdle

NextNoWeeks == ResolveRow \/ ResolveRule \/ Convert \/ Earliest

SpecNoWeeks == InitNoWeeks /\ [][NextNoWeeks]_vars

NoActiveWeeks == schedules[1].weeks = {}

\* C17: a row with no week flag set passes the merger without error, and
\* resolving it fails with an input error: on the row (next_sweep_window),
\* on its rule (next_sweep_window_from_rule) and on its schedule
\* (earliest_sweep_window).
C17_NoActiveWeeksFailsAtResolution ==
    NoActiveWeeks =>
        /\ pc \in {"blocks", "rule", "earliest"} => blocks.exc = "none"
        /\ pc \in {"row", "rule", "earliest"} => window.exc = "ValueError"

\* what the code does: the merger stores "no weeks" as None, which the rule
\* resolver reads as every week, so the rule and the schedule resolve to a
\* window while the row fails
C17_RuleResolvesEveryWeek ==
    NoActiveWeeks =>
        /\ pc \in {"blocks", "rule", "earliest"} =>
              /\ blocks.exc = "none"
              /\ blocks.list[1].rules[1].weeks_of_month = None
        /\ pc = "row" => window.exc = "ValueError"
        /\ pc \in {"rule", "earliest"} =>
              /\ window.exc = "none"
              /\ window = next_sweep_window([schedules[1] EXCEPT !.weeks = 1..5], now)

-----------------------------------------------------------------------------
(* SpecRows: earliest_sweep_window_with_block_id on the source rows of a   *)
(* block, some of which do not resolve.                                    *)

RowsRefDays == 2

RowsRefs ==
    { (d * 24 + h) * 60 : d \in RefBase .. (RefBase + RowsRefDays - 1), h \in {1, 13} }

SourceRows ==
    { Row(l, {1, 3}, hp, 0) : l \in {"Tues", "Thu", "Holiday"}, hp \in {<<2, 4>>, <<2, 5>>} }

\* rows of one block under distinct row ids
SourceLists ==
    UNION { { [i \in 1..n |-> [rows[i] EXCEPT !.block_sweep_id = ids[i]]] :
                rows \in [1..n -> SourceRows], ids \in IdAssignments(n) } : n \in 1..MaxRows }

InitRows ==
    /\ pc = "input"
    /\ schedules \in SourceLists
    /\ now \in RowsRefs
    /\ window = NoWindow
    /\ blocks = NoBlocks
    /\ id_window = NoIdWindow
    /\ response = NoResponse
    /\ raw_now = NoRawNow
    /\ DecideIdle
    /\ SweepIdle

\* the block schedule only serves the error message
RowsBlockSchedule == [block |-> 1, rules |-> <<>>, line |-> 1]

EarliestOfRows ==
    /\ pc = "input"
    /\ id_window' = earliest_sweep_window_with_block_id(RowsBlockSchedule, schedules, now)
    /\ pc' = "done"
    /\ UNCHANGED <<schedules, now, window, blocks, decideVars, sweepVars, response, raw_now>>

NextRows == EarliestOfRows

SpecRows == InitRows /\ [][NextRows]_vars

ResolvingRows ==
    { i \in 1..Len(schedules) : next_sweep_window(schedules[i], now).exc = "none" }

StartOfRow(i) == next_sweep_window(schedules[i], now).start

LexSmallest(i) ==
    \A j \in ResolvingRows :
        \/ StartOfRow(i) < StartOfRow(j)
        \/ /\ StartOfRow(i) = StartOfRow(j)
           /\ schedules[i].block_sweep_id <= schedules[j].block_sweep_id

Orderings(n) == { p \in [1..n -> 1..n] : \A i, j \in 1..n : p[i] = p[j] => i = j }

Reordered(p) == [i \in 1..Len(schedules) |-> schedules[p[i]]]

\* C18: earliest_sweep_window_with_block_id returns the start, end and id of
\* the row with the lexicographically smallest (start, block_sweep_id) among
\* the rows that resolve, and the same result for every ordering of the rows.
C18_SmallestStartThenId ==
    (pc = "done" /\ ResolvingRows # {}) =>
        /\ \E i \in ResolvingRows :
              /\ LexSmallest(i)
              /\ id_window = OkId(StartOfRow(i), next_sweep_window(schedules[i], now).end,
                                  schedules[i].block_sweep_id)
        /\ \A p \in Orderings(Len(schedules)) :
              earliest_sweep_window_with_block_id(RowsBlockSchedule, Reordered(p), now) = id_window

\* two rows with the same start, the larger id first; the smaller id wins
C18_Witness ==
    /\ pc = "done"
    /\ Len(schedules) = 2
    /\ ResolvingRows = {1, 2}
    /\ StartOfRow(1) = StartOfRow(2)
    /\ schedules[1].block_sweep_id > schedules[2].block_sweep_id
    /\ schedules[1].to_hour # schedules[2].to_hour
    /\ id_window.block_sweep_id = schedules[2].block_sweep_id

-----------------------------------------------------------------------------
(* SpecSchedule: earliest_sweep_window on block schedules built directly,  *)
(* with rules that resolve and rules that do not (no weekday).             *)

MaxRules == 2
ScheduleRefDays == 2

ScheduleRefs ==
    { (d * 24 + h) * 60 : d \in RefBase .. (RefBase + ScheduleRefDays - 1), h \in {1, 13} }

ScheduleRules ==
    { [weekdays |-> wd, weeks_of_month |-> Some({1, 3}),
       time_window |-> [start |-> hp[1], end |-> hp[2]], skip_holidays |-> FALSE] :
        wd \in {{}, {1}, {1, 3}}, hp \in {<<2, 4>>, <<9, 11>>} }

BlockSchedules ==
    { [block |-> 1, rules |-> rules, line |-> 1] :
        rules \in UNION { [1..n -> ScheduleRules] : n \in 0..MaxRules } }

InitSchedule ==
    /\ pc = "blocks"
    /\ schedules = <<>>
    /\ blocks \in { [exc |-> "none", list |-> <<bs>>] : bs \in BlockSchedules }
    /\ now \in ScheduleRefs
    /\ window = NoWindow
    /\ id_window = NoIdWindow
    /\ response = NoResponse
    /\ raw_now = NoRawNow
    /\ DecideIdle
    /\ SweepIdle

NextSchedule == Earliest

SpecSchedule == InitSchedule /\ [][NextSchedule]_vars

\* the result of rule i under the first weekdays f
RuleWindow(f, i) == next_sweep_window_from_rule(blocks.list[1].rules[i], f[i], now)

ResolvedRules(f) ==
    { i \in 1..Len(blocks.list[1].rules) : RuleWindow(f, i).exc = "none" }

MinimumOfResolved(f) ==
    IF ResolvedRules(f) = {}
    THEN window.exc = "ValueError"
    ELSE /\ window.exc = "none"
         /\ \E i \in ResolvedRules(f) : window = RuleWindow(f, i)
         /\ \A i \in ResolvedRules(f) : window.start <= RuleWindow(f, i).start

\* C19: earliest_sweep_window resolves each rule once (one first weekday per
\* rule), passes over the rules that fail, and returns the window of a
\* resolved rule with the minimum start; it fails exactly when no rule
\* resolves, which includes the schedule without rules.
C19_MinimumOverResolvedRules ==
    pc = "earliest" =>
        /\ \E f \in FirstChoices(blocks.list[1].rules) : MinimumOfResolved(f)
        /\ window.exc = "ValueError" <=>
              \A i \in 1..Len(blocks.list[1].rules) : blocks.list[1].rules[i].weekdays = {}

\* a failing rule first, then a rule that resolves: its window is returned
C19_Witness ==
    /\ pc = "earliest"
    /\ Len(blocks.list[1].rules) = 2
    /\ blocks.list[1].rules[1].weekdays = {}
    /\ blocks.list[1].rules[2].weekdays = {1}
    /\ window.exc = "none"
    /\ window = next_sweep_window_from_rule(blocks.list[1].rules[2], 1, now)

-----------------------------------------------------------------------------
(* The day a returned window starts on (SpecResolve).                      *)

\* test_occurrence_gap_skips_months_without_target_weekday: February 2025
\* has four Saturdays, the fifth Saturday of March is the 29th
FifthSaturdayExample ==
    next_sweep_window(Row("Sat", {5}, <<9, 11>>, 999), DateTime(2025, 2, 1, 12, 0))
        = Ok(DateTime(2025, 3, 29, 9, 0), DateTime(2025, 3, 29, 11, 0))

\* C20: a window returned by the resolver, for a row or for the rule made of
\* it, starts on a day that is the n-th occurrence of the weekday in its
\* month for an active n; months without an n-th occurrence are passed over
\* (Saturday, weeks {5}, reference 2025-02-01 gives 2025-03-29).
C20_StartsOnActiveOccurrence ==
    /\ FifthSaturdayExample
    /\ (Resolved /\ window.exc = "none") =>
          /\ RowOccurs(schedules[1], OrdOf(window.start))
          /\ MinuteOfDay(window.start) = RowFrom(schedules[1]) * 60

\* a fifth-Saturday row asked after the fifth Saturday of March 2024: April
\* and May have four Saturdays, the window is on 2024-06-29
C20_Witness ==
    /\ pc = "rule"
    /\ schedules[1].week_day = "Sat"
    /\ schedules[1].weeks = {5}
    /\ OrdOf(now) = ymd2ord(2024, 3, 31)
    /\ window.exc = "none"
    /\ OrdOf(window.start) = ymd2ord(2024, 6, 29)

-----------------------------------------------------------------------------
(* The day a returned window ends on (SpecResolve).                        *)

\* C21: a returned window whose end hour is not greater than its start hour
\* ends at end_hour:00 on the day after the start day, and one whose end
\* hour is greater ends at end_hour:00 on the start day.
C21_EndDayFollowsHours ==
    (Resolved /\ window.exc = "none") =>
        /\ MinuteOfDay(window.end) = RowTo(schedules[1]) * 60
        /\ OrdOf(window.end) =
              IF RowTo(schedules[1]) <= RowFrom(schedules[1])
              THEN OrdOf(window.start) + 1
              ELSE OrdOf(window.start)

\* start 23, end 1 on a Monday: the end is on Tuesday at 01:00
C21_Witness ==
    /\ pc = "row"
    /\ schedules[1].week_day = "Mon"
    /\ RowFrom(schedules[1]) = 23
    /\ RowTo(schedules[1]) = 1
    /\ window.exc = "none"
    /\ WeekdayOfOrd(OrdOf(window.start)) = 0
    /\ WeekdayOfOrd(OrdOf(window.end)) = 1
    /\ MinuteOfDay(window.end) = 60

-----------------------------------------------------------------------------
(* SpecAnyRow: one raw row, valid or not, resolved as a row and through    *)
(* the merger and earliest_sweep_window.                                   *)

AnyRowRefDays == 3

AnyRowRefs ==
    { (d * 24 + h) * 60 : d \in RefBase .. (RefBase + AnyRowRefDays - 1), h \in {1, 3, 13} }

AnyRows ==
    { [Row(l, w, <<2, 4>>, 0) EXCEPT !.from_hour = fh, !.to_hour = th] :
        l \in {"Tues", " Tues", "Holiday", "Funday"}, w \in {{}, {1, 3}},
        fh \in {None, Some(2)}, th \in {None, Some(4)} }

InitAnyRow ==
    /\ pc = "input"
    /\ schedules \in { <<r>> : r \in AnyRows }
    /\ now \in AnyRowRefs
    /\ window = NoWindow
    /\ blocks = NoBlocks
    /\ id_window = NoIdWindow
    /\ response = NoResponse
    /\ raw_now = NoRawNow
    /\ DecideIdle
    /\ SweepIdle

NextAnyRow == ResolveRow \/ Convert \/ Earliest

SpecAnyRow == InitAnyRow /\ [][NextAnyRow]_vars

InvalidRow(sched) ==
    \/ sched.week_day \in {"Holiday", "Funday"}
    \/ sched.weeks = {}
    \/ sched.from_hour = None
    \/ sched.to_hour = None

\* C22: on a row whose label is 'Holiday' or unknown, or that has no active
\* week, or that lacks its from or to hour, next_sweep_window gives the
\* input error and no window.
C22_InvalidRowRaises ==
    (pc = "row" /\ InvalidRow(schedules[1])) => window = Raise("ValueError")

C22_Witness ==
    /\ pc = "row"
    /\ schedules[1].week_day = "Holiday"
    /\ schedules[1].weeks = {1, 3}
    /\ schedules[1].from_hour = Some(2)
    /\ schedules[1].to_hour = Some(4)
    /\ window.exc = "ValueError"

-----------------------------------------------------------------------------
(* api/routes.py: check_location                                           *)

HttpError(status, detail) == [status |-> status, detail |-> detail, schedules |-> <<>>]

\* "except ScheduleNotFoundError ... 404 / RepositoryConnectionError ... 502 /
\*  RepositoryAuthenticationError ... 500"
FetchStatus ==
    [ScheduleNotFoundError |-> 404, RepositoryConnectionError |-> 502,
     RepositoryAuthenticationError |-> 500]

FetchOutcomes == {"ok"} \cup DOMAIN FetchStatus

\* BlockScheduleResponse.build(block_sched, start, end)
BlockScheduleResponse(block_sched, start, end) ==
    [block |-> block_sched.block, start |-> start, end |-> end]

\* step 3: the loop over the block schedules; a ValueError of
\* earliest_sweep_window becomes an HTTPException for the whole request
RECURSIVE LocationResponses(_, _, _, _, _)
LocationResponses(block_schedules, firsts, reference, k, schedule_responses) ==
    IF k > Len(block_schedules)
    THEN [status |-> 200, detail |-> "ok", schedules |-> schedule_responses]
    ELSE IF earliest_sweep_window(block_schedules[k], firsts[k], reference).exc = "ValueError"
    THEN HttpError(500, "Could not compute sweep window")
    ELSE LocationResponses(block_schedules, firsts, reference, k + 1,
            Append(schedule_responses,
                   BlockScheduleResponse(
                       block_schedules[k],
                       earliest_sweep_window(block_schedules[k], firsts[k], reference).start,
                       earliest_sweep_window(block_schedules[k], firsts[k], reference).end)))

\* step 2: only ValueError is turned into "Data quality issue"; any other
\* exception of the merger leaves the handler and the server answers 500
ConvertedOrError(converted, firsts, reference) ==
    IF converted.exc = "ValueError" THEN HttpError(500, "Data quality issue")
    ELSE IF converted.exc # "none" THEN HttpError(500, converted.exc)
    ELSE LocationResponses(converted.list, firsts, reference, 1, <<>>)

check_location(fetch, sweeping_schedules, firsts, reference) ==
    IF fetch # "ok" THEN HttpError(FetchStatus[fetch], fetch)
    ELSE ConvertedOrError(sweeping_schedules_to_blocks(sweeping_schedules), firsts, reference)

\* one choice of first weekdays per block schedule
LocationFirsts(block_schedules) ==
    { fs \in [1..Len(block_schedules) ->
                UNION { FirstChoices(block_schedules[k].rules) : k \in 1..Len(block_schedules) }] :
        \A k \in 1..Len(block_schedules) : fs[k] \in FirstChoices(block_schedules[k].rules) }

-----------------------------------------------------------------------------
(* SpecLocation: check_location on the rows of one or two blocks, some of  *)
(* them holiday rows.                                                      *)

LocationRefDays == 3

LocationRefs ==
    { (d * 24 + h) * 60 : d \in RefBase .. (RefBase + LocationRefDays - 1), h \in {1, 13} }

LocationRows ==
    { [Row(l, {1, 3}, <<2, 4>>, 0) EXCEPT !.block = b] :
        l \in {"Tues", "Thu", "Holiday"}, b \in {1, 2} }

InitLocation ==
    /\ pc = "input"
    /\ schedules \in UNION { [1..n -> LocationRows] : n \in 1..MaxRows }
    /\ now \in LocationRefs
    /\ window = NoWindow
    /\ blocks = NoBlocks
    /\ id_window = NoIdWindow
    /\ response = NoResponse
    /\ raw_now = NoRawNow
    /\ DecideIdle
    /\ SweepIdle

CheckLocation ==
    /\ pc = "input"
    /\ \E fetch \in FetchOutcomes :
          \E fs \in LocationFirsts(sweeping_schedules_to_blocks(schedules).list) :
              response' = check_location(fetch, schedules, fs, now)
    /\ pc' = "response"
    /\ UNCHANGED <<schedules, now, window, blocks, id_window, decideVars, sweepVars, raw_now>>

NextLocation == CheckLocation

SpecLocation == InitLocation /\ [][NextLocation]_vars

\* the blocks of the request whose rows all resolve to a window
ComputableBlocks ==
    { schedules[i].block : i \in 1..Len(schedules) } \
    { schedules[i].block : i \in { j \in 1..Len(schedules) :
                                      next_sweep_window(schedules[j], now).exc # "none" } }

\* C23: when the rows were fetched, the response of check_location lists
\* every block whose window can be computed, whatever the other blocks are
\* (a block without computable window is left out, the request does not fail).
C23_LocationKeepsComputableBlocks ==
    (pc = "response" /\ response.detail \notin DOMAIN FetchStatus) =>
        /\ response.status = 200
        /\ \A b \in ComputableBlocks :
              \E k \in 1..Len(response.schedules) : response.schedules[k].block = b

\* what the code does: one block without window fails the whole request
C23_OneBadBlockFailsRequest ==
    (pc = "response" /\ response.detail \notin DOMAIN FetchStatus) =>
        IF \E i \in 1..Len(schedules) : schedules[i].week_day = "Holiday"
        THEN response = HttpError(500, "KeyError")
        ELSE /\ response.status = 200
             /\ Len(response.schedules) = Cardinality({ schedules[i].block : i \in 1..Len(schedules) })

-----------------------------------------------------------------------------
(* domain/calendar.py: _normalize_now.  A reference is its wall clock (in  *)
(* minutes) and its UTC offset, None when it carries no timezone.          *)

\* America/Los_Angeles in 2024: UTC-8 until 2024-03-10 10:00 UTC, UTC-7 after
\* (the references used here lie before the return to UTC-8 in November)
PacificUtcOffset(utc) ==
    IF utc < DateTime(2024, 3, 10, 10, 0) THEN 0 - 480 ELSE 0 - 420

\* datetime.astimezone(tz): the same instant on the target zone's wall clock
astimezone(utc) == utc + PacificUtcOffset(utc)

_normalize_now_replaces(raw) == raw.wall

\* "if now.tzinfo is None: return now.replace(tzinfo=tz)
\*  return now.astimezone(tz)"
_normalize_now(raw) ==
    IF raw.utcoffset = None THEN raw.wall
    ELSE astimezone(raw.wall - Val(raw.utcoffset))

-----------------------------------------------------------------------------
(* SpecNormalize: next_sweep_window on references with and without a zone. *)

NormalizeRefDays == 2

NormalizeBases == { DateTime(2024, 3, 8, 0, 0), DateTime(2024, 3, 31, 0, 0) }

RawWalls ==
    { b + (d * 24 + h) * 60 + 30 :
        b \in NormalizeBases, d \in 0..(NormalizeRefDays - 1), h \in {2, 10, 20} }

\* no zone, UTC, Tokyo, New York (winter)
UtcOffsets == { None, Some(0), Some(540), Some(0 - 300) }

RawRefs == { [wall |-> w, utcoffset |-> o] : w \in RawWalls, o \in UtcOffsets }

NormalizeRows ==
    { Row("Fri", {2, 4}, <<12, 14>>, 0), Row("Sun", {5}, <<18, 20>>, 0),
      Row("Mon", {1}, <<0, 2>>, 0), Row("Sun", {2}, <<1, 3>>, 0) }

InitNormalize ==
    /\ pc = "input"
    /\ schedules \in { <<r>> : r \in NormalizeRows }
    /\ raw_now \in RawRefs
    /\ now = 0
    /\ window = NoWindow
    /\ blocks = NoBlocks
    /\ id_window = NoIdWindow
    /\ response = NoResponse
    /\ DecideIdle
    /\ SweepIdle

\* next_sweep_window given the caller's reference: normalise, then search
ResolveRaw ==
    /\ pc = "input"
    /\ now' = _normalize_now(raw_now)
    /\ window' = next_sweep_window(schedules[1], _normalize_now(raw_now))
    /\ pc' = "row"
    /\ UNCHANGED <<schedules, blocks, id_window, decideVars, sweepVars, response, raw_now>>

NextNormalize == ResolveRaw

SpecNormalize == InitNormalize /\ [][NextNormalize]_vars

\* the instant a reference with a zone denotes
InstantOf(raw) == raw.wall - Val(raw.utcoffset)

\* the Pacific wall clock of an instant, from the local rule: standard time
\* before 2024-03-10 02:00 local, daylight time from 03:00 local
PacificWallOf(utc) ==
    CHOOSE w \in {utc - 480, utc - 420} :
        \/ (w = utc - 480 /\ w < DateTime(2024, 3, 10, 2, 0))
        \/ (w = utc - 420 /\ w >= DateTime(2024, 3, 10, 3, 0))

\* C24: a reference without zone is read as Pacific wall-clock time; a
\* reference with a zone is converted to Pacific time before the search, so
\* the window is that of the Pacific wall clock of its instant and is the
\* same for every reference denoting that instant.
C24_ReferenceNormalised ==
    pc = "row" =>
        IF raw_now.utcoffset = None
        THEN /\ now = raw_now.wall
             /\ window = next_sweep_window(schedules[1], raw_now.wall)
        ELSE /\ now = PacificWallOf(InstantOf(raw_now))
             /\ window = next_sweep_window(schedules[1], PacificWallOf(InstantOf(raw_now)))
             /\ \A o \in {0, 540, 0 - 300, 0 - 480} :
                   next_sweep_window(schedules[1],
                       _normalize_now([wall |-> InstantOf(raw_now) + o, utcoffset |-> Some(o)]))
                     = window

\* 2024-04-01 02:30 UTC is Sunday 2024-03-31 19:30 in Pacific time, inside
\* the fifth-Sunday window 18:00-20:00 of March
C24_Witness ==
    /\ pc = "row"
    /\ raw_now = [wall |-> DateTime(2024, 4, 1, 2, 30), utcoffset |-> Some(0)]
    /\ schedules[1].week_day = "Sun"
    /\ schedules[1].weeks = {5}
    /\ now = DateTime(2024, 3, 31, 19, 30)
    /\ window = Ok(DateTime(2024, 3, 31, 18, 0), DateTime(2024, 3, 31, 20, 0))

-----------------------------------------------------------------------------
(* The per-run read cache (SpecRun).                                       *)

\* entry i of the run fetched the row entry j needs: same store, same id,
\* and the fetch returned
FetchedFor(i, j) ==
    /\ i < j
    /\ sweep_log.entries[i].record.subscription_type
         = sweep_log.entries[j].record.subscription_type
    /\ sweep_log.entries[i].record.schedule_block_sweep_id
         = sweep_log.entries[j].record.schedule_block_sweep_id
    /\ sweep_log.entries[i].asked
    /\ sweep_log.entries[i].step # "fetch_failed"

\* C25: in a run, a record of a known type asks the store for its row
\* exactly when no earlier record of the run fetched that row: the first
\* record to need a row asks (the cache starts empty), a row fetched is not
\* asked for again, and a failed fetch leaves the row to be asked for again.
C25_StoreAskedOncePerRow ==
    \A j \in 1..Len(sweep_log.entries) :
        sweep_log.entries[j].record.subscription_type \in {"sweeping", "timing"} =>
            ( sweep_log.entries[j].asked
              <=> ~\E i \in 1..Len(sweep_log.entries) : FetchedFor(i, j) )

\* two records on row 1: the first fetch fails, the second record asks again
\* and gets the row
C25_Witness ==
    /\ Len(sweep_log.entries) = 2
    /\ sweep_log.entries[1].record.schedule_block_sweep_id = 1
    /\ sweep_log.entries[2].record.schedule_block_sweep_id = 1
    /\ sweep_log.entries[1].record.subscription_type = "sweeping"
    /\ sweep_log.entries[2].record.subscription_type = "sweeping"
    /\ sweep_log.entries[1].step = "fetch_failed"
    /\ sweep_log.entries[2].asked
    /\ sweep_log.entries[2].step = "sent"

\* two records on row 1: the first fetches it, the second reuses it
C25_WitnessReuse ==
    /\ Len(sweep_log.entries) = 2
    /\ sweep_log.entries[1].record.schedule_block_sweep_id = 1
    /\ sweep_log.entries[2].record.schedule_block_sweep_id = 1
    /\ sweep_log.entries[1].record.subscription_type = "sweeping"
    /\ sweep_log.entries[2].record.subscription_type = "sweeping"
    /\ sweep_log.entries[1].asked
    /\ sweep_log.entries[1].step = "sent"
    /\ ~sweep_log.entries[2].asked
    /\ sweep_log.entries[2].step = "sent"

-----------------------------------------------------------------------------
(* SpecHorizon: the resolver on references at the first and the last day   *)
(* of every month of several years, 2024 with its 29 February among them.  *)

HorizonYears == 2

HorizonRefs ==
    UNION { { DateTime(y, m, 1, 0, 0), DateTime(y, m, DaysInMonth(y, m), 23, 30) } :
              y \in 2023..(2022 + HorizonYears), m \in 1..12 }

HorizonRows ==
    { Row(l, w, hp, 999) : l \in DayLabels, w \in {{5}, {1}, {4, 5}},
                           hp \in {<<12, 14>>, <<23, 1>>} }

InitHorizon ==
    /\ pc = "input"
    /\ schedules \in { <<r>> : r \in HorizonRows }
    /\ now \in HorizonRefs
    /\ window = NoWindow
    /\ blocks = NoBlocks
    /\ id_window = NoIdWindow
    /\ response = NoResponse
    /\ raw_now = NoRawNow
    /\ DecideIdle
    /\ SweepIdle

NextHorizon == ResolveRow \/ ResolveRule

SpecHorizon == InitHorizon /\ [][NextHorizon]_vars

\* months from the reference's month to the month the window starts in
MonthsAhead == (YearOf(window.start) - YearOf(now)) * 12 + MonthOf(window.start) - MonthOf(now)

\* C26: on a valid row (a weekday, a non-empty set of weeks, two hours) the
\* search finds a window within the reference month and the twelve months
\* after it, for the row and for its rule: the "within 12 months" error is
\* not produced.
C26_ValidRowResolves ==
    Resolved =>
        /\ window.exc = "none"
        /\ MonthsAhead \in 0..(SearchMonths - 1)

\* fifth-weekday rows reach windows three months ahead of the reference
C26_Witness ==
    /\ Resolved
    /\ schedules[1].weeks = {5}
    /\ window.exc = "none"
    /\ MonthsAhead >= 3

-----------------------------------------------------------------------------
(* The two resolution paths of one row (SpecAnyRow).                       *)

\* the outcome of the row path agrees with a result of the schedule path
SameOutcome(by_row, by_schedule) ==
    /\ (by_row.exc = "none") <=> (by_schedule.exc = "none")
    /\ by_row.exc = "none" =>
          /\ by_row.start = by_schedule.start
          /\ by_row.end = by_schedule.end

\* C27: for one raw row and a reference, merging the row alone and
\* resolving the schedule with earliest_sweep_window gives the same start
\* and end as next_sweep_window on the row, and one path fails exactly when
\* the other does (a failure of the merger is a failure of its path).
C27_PathsAgree ==
    /\ pc = "earliest" => SameOutcome(next_sweep_window(schedules[1], now), window)
    /\ (pc = "blocks" /\ blocks.exc # "none") =>
          next_sweep_window(schedules[1], now).exc # "none"

\* what the code does: the paths agree on rows that have an active week and
\* a label without surrounding blanks
C27_PathsAgreeOnCleanRows ==
    (schedules[1].weeks # {} /\ schedules[1].week_day # " Tues") => C27_PathsAgree

-----------------------------------------------------------------------------
(* No occurrence is missed (SpecService, SpecSweep).                       *)

\* the run decided on an occurrence that had not started
UpcomingAt(entry, reference_now) ==
    /\ entry.step \in {"no_send", "sent"}
    /\ entry.decision.start # None
    /\ Val(entry.decision.start) > reference_now

\* the ideal moment of the occurrence lies before the end of the run's window
ReachedAt(entry, reference_now, polling_end) ==
    /\ UpcomingAt(entry, reference_now)
    /\ Val(entry.decision.start) - entry.record.lead_minutes < polling_end

\* C28: with sweeps at most one cadence apart and pushes that succeed, every
\* upcoming occurrence is notified before it starts: a run whose window
\* reaches the ideal moment of an upcoming occurrence leaves it notified
\* (on time, late, or by an earlier run), and an occurrence a run found too
\* early is still upcoming at the next run when that run starts within the
\* window of this one.
C28_NoOccurrenceMissed ==
    [][ /\ \A i \in 1..Len(sweep_log'.entries) :
              ReachedAt(sweep_log'.entries[i], now', window_end') =>
                  OccurrenceOf(sweep_log'.entries[i]) \in notified'
        /\ now' <= window_end =>
              \A i \in 1..Len(sweep_log.entries) :
                  ( UpcomingAt(sweep_log.entries[i], now)
                    /\ ~ReachedAt(sweep_log.entries[i], now, window_end) )
                  => Val(sweep_log.entries[i].decision.start) > now' ]_vars

-----------------------------------------------------------------------------
(* SpecRegulation: next_parking_regulation_window on one regulation.       *)

RegulationRefDays == 7

RegulationRefs ==
    { (d * 24 + h) * 60 + 30 :
        d \in RefBase .. (RefBase + RegulationRefDays - 1), h \in {1, 9, 23} }

KnownRegulations ==
    { Regulation(days, t[1], t[2]) :
        days \in {"M-F", "M-Su", "Sa-Su", "Sa", "Su"},
        t \in { <<800, 1800>>, <<2200, 200>>, <<930, 1145>> } }

InitRegulation ==
    /\ pc = "input"
    /\ schedules = <<>>
    /\ now \in RegulationRefs
    /\ regulation \in KnownRegulations
    /\ window = NoWindow
    /\ blocks = NoBlocks
    /\ id_window = NoIdWindow
    /\ response = NoResponse
    /\ raw_now = NoRawNow
    /\ record = NoRecord
    /\ window_end = 0
    /\ decision = NoDecision
    /\ SweepIdle

ResolveRegulation ==
    /\ pc = "input"
    /\ window' = next_parking_regulation_window(regulation, now)
    /\ pc' = "regulation"
    /\ UNCHANGED <<schedules, now, blocks, id_window, decideVars, sweepVars, response, raw_now>>

NextRegulation == ResolveRegulation

SpecRegulation == InitRegulation /\ [][NextRegulation]_vars

\* the windows of the regulation, day by day
RegulationActive(ord) ==
    WeekdayOfOrd(ord) \in DAYS_TO_WEEKDAYS[LowerDays(regulation.days)]

MilitaryMinutes(military) == (military \div 100) * 60 + (military % 100)

RegulationStart(ord) == ord * MinutesPerDay + MilitaryMinutes(Val(regulation.hrs_begin))

RegulationEnd(ord) ==
    IF MilitaryMinutes(Val(regulation.hrs_end)) <= MilitaryMinutes(Val(regulation.hrs_begin))
    THEN (ord + 1) * MinutesPerDay + MilitaryMinutes(Val(regulation.hrs_end))
    ELSE ord * MinutesPerDay + MilitaryMinutes(Val(regulation.hrs_end))

\* the days a window still open at the reference, or the next one, starts on
RegulationDays == (OrdOf(now) - 1) .. (OrdOf(now) + RegulationSearchDays)

\* C29: for a regulation with a known day range and valid hours the search
\* returns a window, and it is the earliest window of the regulation that
\* ends after the reference; inside a cross-midnight window that began the
\* day before, that window is the one returned.
C29_EarliestRegulationWindow ==
    pc = "regulation" =>
        /\ window.exc = "none"
        /\ \E d \in RegulationDays :
              /\ RegulationActive(d)
              /\ window = Ok(RegulationStart(d), RegulationEnd(d))
              /\ RegulationEnd(d) > now
              /\ \A e \in RegulationDays :
                    (e < d /\ RegulationActive(e)) => RegulationEnd(e) <= now

\* what the code does: the search starts at the reference's own day, so the
\* window returned is the earliest one that starts on that day or later and
\* ends after the reference
C29_EarliestFromReferenceDay ==
    pc = "regulation" =>
        /\ window.exc = "none"
        /\ \E d \in OrdOf(now) .. (OrdOf(now) + RegulationSearchDays - 1) :
              /\ RegulationActive(d)
              /\ window = Ok(RegulationStart(d), RegulationEnd(d))
              /\ RegulationEnd(d) > now
              /\ \A e \in OrdOf(now) .. (d - 1) :
                    RegulationActive(e) => RegulationEnd(e) <= now

-----------------------------------------------------------------------------
\* the same resolution repeated with another reference
ResolvedAgain(reference) ==
    IF pc = "row"
    THEN {next_sweep_window(schedules[1], reference)}
    ELSE { next_sweep_window_from_rule(blocks.list[1].rules[1], f[1], reference) :
             f \in FirstChoices(blocks.list[1].rules) }

\* C30: a window returned for a reference r has start < end, end > r, lasts
\* at most 24 hours and starts on the rule's weekday; resolving again with
\* the returned start as the reference returns the same window.
C30_WindowShape ==
    (Resolved /\ window.exc = "none") =>
        /\ window.start < window.end
        /\ window.end > now
        /\ window.end - window.start <= MinutesPerDay
        /\ WeekdayOfOrd(OrdOf(window.start)) = RowWeekday(schedules[1])
        /\ ResolvedAgain(window.start) = {window}

\* a window of exactly 24 hours (equal start and end hours), found from a
\* reference before its start
C30_Witness ==
    /\ Resolved
    /\ window.exc = "none"
    /\ window.end - window.start = MinutesPerDay
    /\ now < window.start
    /\ ResolvedAgain(window.start) = {window}

====
